---------------------------- MODULE Spec2Model ----------------------------
(***************************************************************************)
(* Model of the PIXY2 class (src/Pixy2/pixy2.cpp, src/Pixy2/pixy2.h): the  *)
(* non blocking UART driver of a Pixy2 camera.  The public command         *)
(* functions (pixy2_getVersion, pixy2_setLED, ...) are called by the user  *)
(* program; the serial receive interrupt pixy2_getByte stores one received *)
(* byte per invocation and advances the reception state machine.           *)
(***************************************************************************)
EXTENDS Integers, Sequences, FiniteSets, TLC

(***************************************************************************)
(* Program constants (pixy2.h).                                            *)
(***************************************************************************)
PIXY2_NCSHEADERSIZE == 4
PIXY2_CSHEADERSIZE == 6
PIXY2_SYNC == 49582
PIXY2_CSSYNC == 49583
PIXY2_REP_ACK == 1
PIXY2_REP_ERROR == 3
PIXY2_ASK_RESOL == 12
PIXY2_REP_RESOL == 13
PIXY2_ASK_VERS == 14
PIXY2_REP_VERS == 15
PIXY2_SET_BRIGHT == 16
PIXY2_SET_SERVOS == 18
PIXY2_SET_LED == 20
PIXY2_SET_LAMP == 22
PIXY2_ASK_FPS == 24
PIXY2_REP_FPS == 1
PIXY2_ASK_BLOC == 32
PIXY2_REP_BLOC == 33
PIXY2_ASK_LINE == 48
PIXY2_REP_LINE == 49
PIXY2_SET_MODE == 54
PIXY2_SET_TURN == 58
PIXY2_SET_VECTOR == 56
PIXY2_SET_DEFTURN == 60
PIXY2_SET_REVERSE == 62
PIXY2_ASK_VIDEO == 112
PIXY2_VECTOR == 1
PIXY2_INTERSECTION == 2
PIXY2_BARCODE == 4
PIXY2_OK == 0
PIXY2_BUSY == -1
PIXY2_BAD_CHECKSUM == -3
PIXY2_TYPE_ERROR == -7

\* malloc (0x100): the size of the reception buffer.
BufferSize == 256
\* sizeof of the structures the payload is mapped on.
SizeofBloc == 14
SizeofVector == 6
SizeofIntersection == 28
SizeofBarCode == 4

(***************************************************************************)
(* Bounds of the model.                                                    *)
(***************************************************************************)
\* Number of requests the user program sends in one behaviour.
MaxTransactions == 2
\* The payloads of every length up to this one are validated.
MaxPayload == 2

\* The length of the one long payload that is validated.
MaxLongPayload == 24

\* Number of bytes the line delivers outside of any reply frame.
MaxStray == 1

\* The longest payload of the line replies that hold any bytes.
MaxFeatureBytes == 3

(***************************************************************************)
(* Width of the C types (Byte, Word, int).                                 *)
(***************************************************************************)
ByteOf(n) == n % 256
WordOf(n) == n % 65536
\* T_Word: the two bytes b0, b1 stored at increasing addresses, read as mot.
MotOf(b0, b1) == b0 + 256 * b1
\* T_Word.octet[0], T_Word.octet[1] of a 16 bit value.
Octets(w) == <<WordOf(w) % 256, WordOf(w) \div 256>>
\* IntOf on a machine that stores the most significant byte first.
IntOfBigEndian(b0, b1, b2, b3) ==
    b3 + 256 * b2 + 65536 * b1 + 16777216 * (IF b0 >= 128 THEN b0 - 256 ELSE b0)

\* A T_pixy2ErrorCode (32 bit int) read from 4 bytes at increasing addresses.
\* (two's complement: the byte b3 carries the sign).
IntOf(b0, b1, b2, b3) ==
    b0 + 256 * b1 + 65536 * b2 + 16777216 * (IF b3 >= 128 THEN b3 - 256 ELSE b3)

VARIABLES
    etat,                   \* T_Pixy2State
    Pixy2_buffer,           \* the 256 bytes of the reception buffer
    wPointer,               \* Byte: write pointer
    hPointer,               \* Byte: header pointer
    dPointer,               \* Byte: data pointer
    dataSize,               \* Byte: payload size read from the header
    frameContainChecksum,   \* Byte: 1 when the frame began with PIXY2_CSSYNC
    Pixy2_numBlocks,        \* public members written by pixy2_getBlocks
    Pixy2_blocks,
    features,               \* public members written by pixy2_getFeatures
    ptrOut,                 \* what the last call stored through its pointer argument
    cr,                     \* return code of the last call
    branch,                 \* case of switch (etat) the last call executed
    hung,                   \* TRUE when a call is still inside pixy2_getFeatures' loop
    debugSums,              \* the globals sommeDeControle, sommeRecue
    tx,                     \* last frame written on the serial line, until the camera reads it
    txCount,                \* number of frames written on the serial line
    rx,                     \* bytes on the line towards the receive interrupt
    strays,                 \* number of stray bytes put on the line so far
    delivered,              \* the bytes the interrupt was given since the last request
    camera,                 \* the reply frames the camera may answer with
    pc,                     \* where the call in progress is ("out": no call in progress)
    msg                     \* T_pixy2RcvHeader *msg of the call in progress (index in the buffer)

engine == <<etat, Pixy2_buffer, wPointer, hPointer, dPointer, dataSize,
            frameContainChecksum>>
members == <<Pixy2_numBlocks, Pixy2_blocks, features>>
line == <<tx, txCount, rx, strays, delivered, camera>>
\* The locals of a call the interrupt may preempt.
local == <<pc, msg>>
vars == <<engine, members, ptrOut, cr, branch, hung, debugSums, line, local>>

States == {"idle", "messageSent", "receivingHeader", "receivingData", "dataReceived"}

\* A pointer that was never assigned (T_pixy2Bloc *Pixy2_blocks, ...).
NoView == [kind |-> "none", at |-> 0]

\* The byte at address buf + i.  The buffer holds BufferSize bytes; what lies
\* behind it is not the driver's: a read there yields the byte adj.
ByteAt(buf, adj, i) == IF i < BufferSize THEN buf[i] ELSE adj
\* Values a byte of memory behind the buffer, or of the stack, may hold.
UnknownBytes == {0, 255}


(***************************************************************************)
(* The camera (Pixy2 serial protocol, as documented in pixy2.cpp, lines 57 *)
(* to 72, and by T_pixy2RcvHeader): a reply frame is the sync word, the    *)
(* type, the payload length, the checksum of the payload when the sync     *)
(* word is PIXY2_CSSYNC, and the payload.                                  *)
(***************************************************************************)
RECURSIVE SumBytes(_)
SumBytes(s) == IF s = <<>> THEN 0 ELSE Head(s) + SumBytes(Tail(s))

\* delta is added to the checksum field: 0 for a frame that was not corrupted.
ReplyFrame(sync, type, payload, delta) ==
    Octets(sync) \o <<type, Len(payload)>>
        \o (IF sync = PIXY2_CSSYNC
              THEN Octets(WordOf(SumBytes(payload)) + delta) ELSE <<>>)
        \o payload

\* T_pixy2Version of a Pixy2: hardware 0x2200, firmware 3.0.11, "general".
VersionPayload == <<0, 34, 3, 0, 11, 0, 103, 101, 110, 101, 114, 97, 108>>
\* T_pixy2Resolution: 316 x 208.
ResolutionPayload == <<60, 1, 208, 0>>

RepVersion == ReplyFrame(PIXY2_CSSYNC, PIXY2_REP_VERS, VersionPayload, 0)
RepVersionBadSum == ReplyFrame(PIXY2_CSSYNC, PIXY2_REP_VERS, VersionPayload, 1)
RepVersionNoSum == ReplyFrame(PIXY2_SYNC, PIXY2_REP_VERS, VersionPayload, 0)
RepResolution == ReplyFrame(PIXY2_CSSYNC, PIXY2_REP_RESOL, ResolutionPayload, 0)
RepAck == ReplyFrame(PIXY2_CSSYNC, PIXY2_REP_ACK, <<0, 0, 0, 0>>, 0)
RepError2 == ReplyFrame(PIXY2_CSSYNC, PIXY2_REP_ERROR, <<2, 0, 0, 0>>, 0)
RepErrorMinus2 == ReplyFrame(PIXY2_CSSYNC, PIXY2_REP_ERROR, <<254, 255, 255, 255>>, 0)
\* The answer to getBlocks when no block is detected: a header, no payload.
RepNoBlock == ReplyFrame(PIXY2_CSSYNC, PIXY2_REP_BLOC, <<>>, 0)

\* One T_pixy2Bloc: signature 1, x 158, y 104, width 40, height 30, angle 0,
\* index 7, age 255.
BlockPayload == <<1, 0, 158, 0, 104, 0, 40, 0, 30, 0, 0, 0, 7, 255>>
RepOneBlock == ReplyFrame(PIXY2_CSSYNC, PIXY2_REP_BLOC, BlockPayload, 0)

BaseReplies == {RepVersion, RepVersionBadSum, RepVersionNoSum, RepResolution,
                RepAck, RepError2, RepErrorMinus2, RepNoBlock}

\* What the camera answers to getBlocks.
BlockReplies == {RepOneBlock, RepNoBlock, RepError2}

\* Bytes the line may deliver outside of a reply frame: the high byte of the
\* sync words.
StrayBytes == {193}

(***************************************************************************)
(* The state the constructor leaves (pixy2.cpp, lines 12 to 18): etat is   *)
(* idle and the four counters are 0; the pointers, dataSize,               *)
(* frameContainChecksum and the malloc'ed buffer are not initialised.      *)
(***************************************************************************)
Uninitialised ==
    { [w |-> 0, h |-> 0, d |-> 0, size |-> 0, sum |-> 0, fill |-> 0],
      [w |-> 254, h |-> 9, d |-> 3, size |-> 200, sum |-> 1, fill |-> 255] }

InitWith(replies) ==
    \E u \in Uninitialised :
        /\ etat = "idle"
        /\ Pixy2_buffer = [i \in 0..(BufferSize - 1) |-> u.fill]
        /\ wPointer = u.w
        /\ hPointer = u.h
        /\ dPointer = u.d
        /\ dataSize = u.size
        /\ frameContainChecksum = u.sum
        /\ Pixy2_numBlocks = 0
        /\ Pixy2_blocks = NoView
        /\ features = [numVectors |-> 0, numIntersections |-> 0, numBarcodes |-> 0,
                       vectors |-> NoView, intersections |-> NoView,
                       barcodes |-> NoView]
        /\ ptrOut = NoView
        /\ cr = PIXY2_OK
        /\ branch = "none"
        /\ hung = FALSE
        /\ debugSums = <<0, 0>>
        /\ tx = <<>>
        /\ txCount = 0
        /\ rx = <<>>
        /\ strays = 0
        /\ delivered = <<>>
        /\ camera = replies
        /\ pc = "out"
        /\ msg = 0

Init == InitWith(BaseReplies)

(***************************************************************************)
(* pixy2_getByte: the receive interrupt (pixy2.cpp, lines 96 to 142).      *)
(***************************************************************************)
\* (buffer->mot == PIXY2_CSSYNC) || (buffer->mot == PIXY2_SYNC)
IsSyncWord(mot) == mot = PIXY2_CSSYNC \/ mot = PIXY2_SYNC

\* The size of the header announced by the sync word mot.
HeaderSizeOf(mot) ==
    IF mot = PIXY2_SYNC THEN PIXY2_NCSHEADERSIZE ELSE PIXY2_CSHEADERSIZE

\* HeaderReceived with the last byte of the header not waited for.
HeaderReceivedEarly(w, h, sum) ==
    \/ sum # 0 /\ w - h = PIXY2_CSHEADERSIZE - 2
    \/ sum = 0 /\ w - h = PIXY2_NCSHEADERSIZE - 2

\* The condition of case receivingHeader: the header is complete.
HeaderReceived(w, h, sum) ==
    \/ sum # 0 /\ w - h = PIXY2_CSHEADERSIZE - 1
    \/ sum = 0 /\ w - h = PIXY2_NCSHEADERSIZE - 1

\* DataReceived with the last byte of the payload not waited for.
DataReceivedEarly(w, d, size) == w = (size - 2) + d

\* The condition of case receivingData: the payload is complete.
DataReceived(w, d, size) == w = (size - 1) + d

\* switch (etat) of the interrupt, buf being the buffer with the byte stored.
AfterByte(buf) ==
    LET cur == [etat |-> etat, h |-> hPointer, d |-> dPointer,
                size |-> dataSize, sum |-> frameContainChecksum]
    IN  CASE etat = "messageSent" ->
                IF wPointer > 0
                  THEN LET mot == MotOf(buf[wPointer - 1], buf[wPointer])
                       IN  IF IsSyncWord(mot)
                             THEN [etat |-> "receivingHeader",
                                   h |-> wPointer - 1,
                                   d |-> ByteOf(wPointer - 1 + HeaderSizeOf(mot)),
                                   size |-> dataSize,
                                   sum |-> IF mot = PIXY2_SYNC THEN 0 ELSE 1]
                             ELSE cur
                  ELSE cur
          [] etat = "receivingHeader" ->
                IF HeaderReceived(wPointer, hPointer, frameContainChecksum)
                  THEN LET size == buf[hPointer + 3]
                       IN  [cur EXCEPT !.etat = IF size = 0 THEN "idle"
                                                ELSE "receivingData",
                                       !.size = size]
                  ELSE cur
          [] etat = "receivingData" ->
                IF DataReceived(wPointer, dPointer, dataSize)
                  THEN [cur EXCEPT !.etat = "dataReceived"]
                  ELSE cur
          [] OTHER -> cur

\* pixy2_getByte with a write cursor wider than a Byte.
pixy2_getByteWideCursor ==
    /\ rx # <<>>
    /\ LET buf == [Pixy2_buffer EXCEPT ![wPointer] = Head(rx)]
           nxt == AfterByte(buf)
       IN  /\ Pixy2_buffer' = buf
           /\ etat' = nxt.etat
           /\ hPointer' = nxt.h
           /\ dPointer' = nxt.d
           /\ dataSize' = nxt.size
           /\ frameContainChecksum' = nxt.sum
    /\ wPointer' = wPointer + 1
    /\ rx' = Tail(rx)
    /\ delivered' = Append(delivered, Head(rx))
    /\ UNCHANGED <<local, members, ptrOut, cr, branch, hung, debugSums, tx, txCount, strays, camera>>

\* pixy2_getByte that drops the bytes received outside of a transaction.
pixy2_getByteInTransaction ==
    /\ rx # <<>>
    /\ LET buf == [Pixy2_buffer EXCEPT ![wPointer] = Head(rx)]
           nxt == AfterByte(buf)
           drop == etat \in {"idle", "dataReceived"}
       IN  /\ Pixy2_buffer' = IF drop THEN Pixy2_buffer ELSE buf
           /\ wPointer' = IF drop THEN wPointer ELSE ByteOf(wPointer + 1)
           /\ etat' = nxt.etat
           /\ hPointer' = nxt.h
           /\ dPointer' = nxt.d
           /\ dataSize' = nxt.size
           /\ frameContainChecksum' = nxt.sum
    /\ rx' = Tail(rx)
    /\ delivered' = Append(delivered, Head(rx))
    /\ UNCHANGED <<local, members, ptrOut, cr, branch, hung, debugSums, tx, txCount, strays, camera>>

pixy2_getByte ==
    /\ rx # <<>>
    /\ LET buf == [Pixy2_buffer EXCEPT ![wPointer] = Head(rx)]
           nxt == AfterByte(buf)
       IN  /\ Pixy2_buffer' = buf
           /\ etat' = nxt.etat
           /\ hPointer' = nxt.h
           /\ dPointer' = nxt.d
           /\ dataSize' = nxt.size
           /\ frameContainChecksum' = nxt.sum
    /\ wPointer' = ByteOf(wPointer + 1)
    /\ rx' = Tail(rx)
    /\ delivered' = Append(delivered, Head(rx))
    /\ UNCHANGED <<local, members, ptrOut, cr, branch, hung, debugSums, tx, txCount, strays, camera>>

(***************************************************************************)
(* The serial line.                                                        *)
(***************************************************************************)
\* The camera reads the request and answers it with one of its reply frames.
CameraReply ==
    /\ tx # <<>>
    /\ \E f \in camera : rx' = rx \o f
    /\ tx' = <<>>
    /\ UNCHANGED <<local, engine, members, ptrOut, cr, branch, hung, debugSums, txCount, strays,
                   delivered, camera>>

\* The line, while it carries nothing, delivers a byte that belongs to no frame.
StrayByte ==
    /\ strays < MaxStray
    /\ rx = <<>>
    /\ \E b \in StrayBytes : rx' = <<b>>
    /\ strays' = strays + 1
    /\ UNCHANGED <<local, engine, members, ptrOut, cr, branch, hung, debugSums, tx, txCount,
                   delivered, camera>>


(***************************************************************************)
(* The request frames (pixy2_snd... functions, pixy2.cpp lines 144 to 385).*)
(* Each writes PIXY2_NCSHEADERSIZE + dataSize bytes of a T_pixy2SendBuffer *)
(* on the serial line: the sync word PIXY2_SYNC, the type, the length and  *)
(* the first dataSize bytes of frame.data.                                 *)
(***************************************************************************)
SendBuffer(type, size, data) ==
    Octets(PIXY2_SYNC) \o <<type, ByteOf(size)>> \o SubSeq(data, 1, size)

pixy2_sndGetVersion == SendBuffer(PIXY2_ASK_VERS, 0, <<>>)
pixy2_sndGetResolution == SendBuffer(PIXY2_ASK_RESOL, 1, <<0>>)
pixy2_sndSetCameraBrightness(brightness) ==
    SendBuffer(PIXY2_SET_BRIGHT, 1, <<ByteOf(brightness)>>)
pixy2_sndSetServo(s0, s1) ==
    SendBuffer(PIXY2_SET_SERVOS, 4, Octets(s0) \o Octets(s1))
pixy2_sndSetLED(red, green, blue) ==
    SendBuffer(PIXY2_SET_LED, 3, <<ByteOf(red), ByteOf(green), ByteOf(blue)>>)
pixy2_sndSetLamp(upper, lower) ==
    SendBuffer(PIXY2_SET_LAMP, 2, <<ByteOf(upper), ByteOf(lower)>>)
pixy2_sndGetFPS == SendBuffer(PIXY2_ASK_FPS, 0, <<>>)
pixy2_sndGetBlocks(sigmap, maxBloc) ==
    SendBuffer(PIXY2_ASK_BLOC, 2, <<ByteOf(sigmap), ByteOf(maxBloc)>>)
pixy2_sndGetLineFeature(type, feature) ==
    SendBuffer(PIXY2_ASK_LINE, 2, <<ByteOf(type), ByteOf(feature)>>)
pixy2_sndSetMode(mode) == SendBuffer(PIXY2_SET_MODE, 1, <<ByteOf(mode)>>)
pixy2_sndSetNextTurn(angle) == SendBuffer(PIXY2_SET_TURN, 2, Octets(angle))
pixy2_sndSetDefaultTurn(angle) == SendBuffer(PIXY2_SET_DEFTURN, 2, Octets(angle))
pixy2_sndSetVector(vectorIndex) ==
    SendBuffer(PIXY2_SET_VECTOR, 1, <<ByteOf(vectorIndex)>>)
pixy2_sndReverseVector == SendBuffer(PIXY2_SET_REVERSE, 0, <<>>)
\* dataSize is 5 and only data[0..2] are assigned: data[3] and data[4] hold
\* what the stack held (u3, u4).
pixy2_sndGetRGB(x, y, saturate, u3, u4) ==
    SendBuffer(PIXY2_ASK_VIDEO, 5, <<ByteOf(x), ByteOf(y), ByteOf(saturate), u3, u4>>)

(***************************************************************************)
(* pixy2_validateChecksum (pixy2.cpp, lines 984 to 999).                   *)
(***************************************************************************)
\* for (i=0; i<*(tab+3);i++) sum = sum + *(tab + PIXY2_CSHEADERSIZE + i);
\* (sum is a Word; stating it makes the sum evaluated at every turn).
RECURSIVE SumLoop(_, _, _, _, _)
SumLoop(buf, adj, tab, i, sum) ==
    IF i < ByteAt(buf, adj, tab + 3) /\ sum \in 0..65535
      THEN SumLoop(buf, adj, tab, i + 1,
                   WordOf(sum + ByteAt(buf, adj, tab + PIXY2_CSHEADERSIZE + i)))
      ELSE sum

\* ReceivedSum that reads the most significant byte of the checksum first.
ReceivedSumBigEndian(buf, adj, tab) ==
    MotOf(ByteAt(buf, adj, tab + 5), ByteAt(buf, adj, tab + 4))

\* tmp->mot, tmp = (T_Word*) (tab+4)
ReceivedSum(buf, adj, tab) == MotOf(ByteAt(buf, adj, tab + 4), ByteAt(buf, adj, tab + 5))

pixy2_validateChecksum(buf, adj, tab) ==
    IF ReceivedSum(buf, adj, tab) = SumLoop(buf, adj, tab, 0, 0)
      THEN PIXY2_OK ELSE PIXY2_BAD_CHECKSUM

\* ChecksumFails that verifies the checksum of every frame.
ChecksumTestedAlways(adj) ==
    pixy2_validateChecksum(Pixy2_buffer, adj, hPointer) # 0

\* if (frameContainChecksum) if (pixy2_validateChecksum (...) != 0): the test
\* that makes a command return PIXY2_BAD_CHECKSUM.
ChecksumFails(adj) ==
    /\ frameContainChecksum # 0
    /\ pixy2_validateChecksum(Pixy2_buffer, adj, hPointer) # 0

\* msg->pixType, msg = (T_pixy2RcvHeader*) &Pixy2_buffer[hPointer]
PixType(adj) == ByteAt(Pixy2_buffer, adj, hPointer + 2)

\* *(T_pixy2ErrorCode*) &buf[d]: the four bytes from d on, whatever the
\* length of the payload is.
ErrorCodeIn(buf, adj, d) ==
    IntOf(ByteAt(buf, adj, d), ByteAt(buf, adj, d + 1),
          ByteAt(buf, adj, d + 2), ByteAt(buf, adj, d + 3))

\* *(T_pixy2ErrorCode*) &Pixy2_buffer[dPointer]
ErrorCodeAt(adj) == ErrorCodeIn(Pixy2_buffer, adj, dPointer)

(***************************************************************************)
(* The three cases of switch (etat) every public command is made of.       *)
(***************************************************************************)
\* IdleCase without wPointer = 0.
IdleCaseKeepsCursor(frame) ==
    /\ etat = "idle"
    /\ ~hung
    /\ txCount < MaxTransactions
    /\ tx' = frame
    /\ txCount' = txCount + 1
    /\ etat' = "messageSent"
    /\ cr' = PIXY2_BUSY
    /\ branch' = "idle"
    /\ ptrOut' = NoView
    /\ delivered' = <<>>
    /\ UNCHANGED <<local, Pixy2_buffer, wPointer, hPointer, dPointer, dataSize,
                   frameContainChecksum, members, hung, debugSums, rx, strays, camera>>

\* case idle: wPointer = 0, the request is sent, etat = messageSent.
IdleCase(frame) ==
    /\ etat = "idle"
    /\ ~hung
    /\ txCount < MaxTransactions
    /\ wPointer' = 0
    /\ tx' = frame
    /\ txCount' = txCount + 1
    /\ etat' = "messageSent"
    /\ cr' = PIXY2_BUSY
    /\ branch' = "idle"
    /\ ptrOut' = NoView
    /\ delivered' = <<>>
    /\ UNCHANGED <<local, Pixy2_buffer, hPointer, dPointer, dataSize, frameContainChecksum,
                   members, hung, debugSums, rx, strays, camera>>

\* DefaultCase that rewinds the write pointer, as case idle does.
DefaultCaseRewinds ==
    /\ etat \in {"messageSent", "receivingHeader", "receivingData"}
    /\ ~hung
    /\ wPointer' = 0
    /\ cr' = PIXY2_BUSY
    /\ branch' = "default"
    /\ ptrOut' = NoView
    /\ UNCHANGED <<local, etat, Pixy2_buffer, hPointer, dPointer, dataSize,
                   frameContainChecksum, members, hung, debugSums, line>>

\* DefaultCase that writes the request on the serial line once more.
DefaultCaseResends ==
    /\ etat \in {"messageSent", "receivingHeader", "receivingData"}
    /\ ~hung
    /\ txCount' = txCount + 1
    /\ cr' = PIXY2_BUSY
    /\ branch' = "default"
    /\ ptrOut' = NoView
    /\ UNCHANGED <<local, engine, members, hung, debugSums, tx, rx, strays, delivered, camera>>

\* DefaultCase that gives the camera up: PIXY2_TIMEOUT (-4) is returned and
\* the state is idle again.
DefaultCaseTimesOut ==
    /\ etat \in {"messageSent", "receivingHeader", "receivingData"}
    /\ ~hung
    /\ cr' = -4
    /\ etat' = "idle"
    /\ branch' = "default"
    /\ ptrOut' = NoView
    /\ UNCHANGED <<local, Pixy2_buffer, wPointer, hPointer, dPointer, dataSize,
                   frameContainChecksum, members, hung, debugSums, line>>

\* DefaultCase that drops the frame that is being received.
DefaultCaseDropsFrame ==
    /\ etat \in {"messageSent", "receivingHeader", "receivingData"}
    /\ ~hung
    /\ cr' = PIXY2_BUSY
    /\ etat' = IF etat = "receivingData" THEN "messageSent" ELSE etat
    /\ branch' = "default"
    /\ ptrOut' = NoView
    /\ UNCHANGED <<local, Pixy2_buffer, wPointer, hPointer, dPointer, dataSize,
                   frameContainChecksum, members, hung, debugSums, line>>

\* default: the camera is busy.
DefaultCase ==
    /\ etat \in {"messageSent", "receivingHeader", "receivingData"}
    /\ ~hung
    /\ cr' = PIXY2_BUSY
    /\ branch' = "default"
    /\ ptrOut' = NoView
    /\ UNCHANGED <<local, engine, members, hung, debugSums, line>>

\* BadChecksumReturn that frees the camera before it returns.
BadChecksumReturnsToIdle(adj) ==
    /\ cr' = PIXY2_BAD_CHECKSUM
    /\ debugSums' = <<SumLoop(Pixy2_buffer, adj, hPointer, 0, 0),
                      ReceivedSum(Pixy2_buffer, adj, hPointer)>>
    /\ ptrOut' = NoView
    /\ etat' = "idle"
    /\ UNCHANGED <<local, Pixy2_buffer, wPointer, hPointer, dPointer, dataSize,
                   frameContainChecksum, members, hung, line>>

\* return PIXY2_BAD_CHECKSUM of case dataReceived (with _DEBUG_ the two sums
\* are kept in sommeDeControle and sommeRecue).
BadChecksumReturn(adj) ==
    /\ cr' = PIXY2_BAD_CHECKSUM
    /\ debugSums' = <<SumLoop(Pixy2_buffer, adj, hPointer, 0, 0),
                      ReceivedSum(Pixy2_buffer, adj, hPointer)>>
    /\ ptrOut' = NoView
    /\ UNCHANGED <<local, engine, members, hung, line>>

\* MappedReply that maps the structure on the header of the reply.
MappedReplyOnHeader(adj, expected, kind) ==
    /\ IF PixType(adj) = expected
         THEN /\ ptrOut' = [kind |-> kind, at |-> hPointer]
              /\ cr' = PIXY2_OK
         ELSE /\ ptrOut' = NoView
              /\ cr' = IF PixType(adj) = PIXY2_REP_ERROR
                         THEN ErrorCodeAt(adj) ELSE PIXY2_TYPE_ERROR
    /\ etat' = "idle"
    /\ UNCHANGED <<local, Pixy2_buffer, wPointer, hPointer, dPointer, dataSize,
                   frameContainChecksum, members, hung, debugSums, line>>

\* The end of case dataReceived for the commands that read a structure:
\* the reply is mapped when its type is the expected one.
MappedReply(adj, expected, kind) ==
    /\ IF PixType(adj) = expected
         THEN /\ ptrOut' = [kind |-> kind, at |-> dPointer]
              /\ cr' = PIXY2_OK
         ELSE /\ ptrOut' = NoView
              /\ cr' = IF PixType(adj) = PIXY2_REP_ERROR
                         THEN ErrorCodeAt(adj) ELSE PIXY2_TYPE_ERROR
    /\ etat' = "idle"
    /\ UNCHANGED <<local, Pixy2_buffer, wPointer, hPointer, dPointer, dataSize,
                   frameContainChecksum, members, hung, debugSums, line>>

\* case dataReceived of pixy2_getVersion, pixy2_getResolution, pixy2_getFPS
\* and pixy2_getRGB.
DataReceivedMap(adj, expected, kind) ==
    /\ etat = "dataReceived"
    /\ ~hung
    /\ branch' = "dataReceived"
    /\ IF ChecksumFails(adj)
         THEN BadChecksumReturn(adj)
         ELSE MappedReply(adj, expected, kind)

\* AckReply that takes a code from a reply of any type.
AckReplyOfAnyType(adj) ==
    /\ cr' = ErrorCodeAt(adj)
    /\ ptrOut' = NoView
    /\ etat' = "idle"
    /\ UNCHANGED <<local, Pixy2_buffer, wPointer, hPointer, dPointer, dataSize,
                   frameContainChecksum, members, hung, debugSums, line>>

\* The end of case dataReceived for the commands that set something: the
\* code of an acknowledge or of an error reply is returned.
AckReply(adj) ==
    /\ cr' = IF PixType(adj) = PIXY2_REP_ACK \/ PixType(adj) = PIXY2_REP_ERROR
               THEN ErrorCodeAt(adj) ELSE PIXY2_TYPE_ERROR
    /\ ptrOut' = NoView
    /\ etat' = "idle"
    /\ UNCHANGED <<local, Pixy2_buffer, wPointer, hPointer, dPointer, dataSize,
                   frameContainChecksum, members, hung, debugSums, line>>

\* case dataReceived of the pixy2_set... commands and pixy2_ReverseVector.
DataReceivedAck(adj) ==
    /\ etat = "dataReceived"
    /\ ~hung
    /\ branch' = "dataReceived"
    /\ IF ChecksumFails(adj)
         THEN BadChecksumReturn(adj)
         ELSE AckReply(adj)


\* BlocksReply that maps and counts the blocks of a reply of any type.
BlocksReplyOfAnyType(adj) ==
    /\ Pixy2_blocks' = [kind |-> "blocks", at |-> dPointer]
    /\ Pixy2_numBlocks' = dataSize \div SizeofBloc
    /\ cr' = IF PixType(adj) = PIXY2_REP_BLOC THEN PIXY2_OK
             ELSE IF PixType(adj) = PIXY2_REP_ERROR
                    THEN ErrorCodeAt(adj) ELSE PIXY2_TYPE_ERROR
    /\ ptrOut' = NoView
    /\ etat' = "idle"
    /\ UNCHANGED <<local, Pixy2_buffer, wPointer, hPointer, dPointer, dataSize,
                   frameContainChecksum, features, hung, debugSums, line>>

\* BlocksReply that counts a block that was received in part.
BlocksReplyRoundsUp(adj) ==
    /\ IF PixType(adj) = PIXY2_REP_BLOC
         THEN /\ Pixy2_blocks' = [kind |-> "blocks", at |-> dPointer]
              /\ Pixy2_numBlocks' = (dataSize + SizeofBloc - 1) \div SizeofBloc
              /\ cr' = PIXY2_OK
         ELSE /\ UNCHANGED <<Pixy2_blocks, Pixy2_numBlocks>>
              /\ cr' = IF PixType(adj) = PIXY2_REP_ERROR
                         THEN ErrorCodeAt(adj) ELSE PIXY2_TYPE_ERROR
    /\ ptrOut' = NoView
    /\ etat' = "idle"
    /\ UNCHANGED <<local, Pixy2_buffer, wPointer, hPointer, dPointer, dataSize,
                   frameContainChecksum, features, hung, debugSums, line>>

\* case dataReceived of pixy2_getBlocks: the blocks are mapped on the payload
\* and counted.
BlocksReply(adj) ==
    /\ IF PixType(adj) = PIXY2_REP_BLOC
         THEN /\ Pixy2_blocks' = [kind |-> "blocks", at |-> dPointer]
              /\ Pixy2_numBlocks' = dataSize \div SizeofBloc
              /\ cr' = PIXY2_OK
         ELSE /\ UNCHANGED <<Pixy2_blocks, Pixy2_numBlocks>>
              /\ cr' = IF PixType(adj) = PIXY2_REP_ERROR
                         THEN ErrorCodeAt(adj) ELSE PIXY2_TYPE_ERROR
    /\ ptrOut' = NoView
    /\ etat' = "idle"
    /\ UNCHANGED <<local, Pixy2_buffer, wPointer, hPointer, dPointer, dataSize,
                   frameContainChecksum, features, hung, debugSums, line>>

DataReceivedBlocks(adj) ==
    /\ etat = "dataReceived"
    /\ ~hung
    /\ branch' = "dataReceived"
    /\ IF ChecksumFails(adj)
         THEN BadChecksumReturn(adj)
         ELSE BlocksReply(adj)

(***************************************************************************)
(* pixy2_getFeatures (pixy2.cpp, lines 675 to 724): the features of a line *)
(* reply are walked, each one a type byte, a length byte and its data.     *)
(***************************************************************************)
\* BitOr that adds the bit.
BitOrAdds(n, bit) == n + bit

\* cr |= bit, for cr >= 0 and bit a power of 2.
BitOr(n, bit) == IF (n \div bit) % 2 = 1 THEN n ELSE n + bit

\* One turn of the do ... while loop at fPointer: the three tests read the
\* same lineFeature, so at most one of them is true.
FeatureAt(adj, fPointer, acc) ==
    LET fType == ByteAt(Pixy2_buffer, adj, fPointer)
        fLength == ByteAt(Pixy2_buffer, adj, fPointer + 1)
        f == acc.features
    IN  CASE fType = PIXY2_VECTOR ->
                [fPointer |-> fPointer + fLength + 2,
                 cr |-> BitOr(acc.cr, PIXY2_VECTOR),
                 features |-> [f EXCEPT !.numVectors = fLength \div SizeofVector,
                                        !.vectors = [kind |-> "vectors",
                                                     at |-> fPointer + 2]]]
          [] fType = PIXY2_INTERSECTION ->
                [fPointer |-> fPointer + fLength + 2,
                 cr |-> BitOr(acc.cr, PIXY2_INTERSECTION),
                 features |-> [f EXCEPT !.numIntersections =
                                            fLength \div SizeofIntersection,
                                        !.intersections = [kind |-> "intersections",
                                                           at |-> fPointer + 2]]]
          [] fType = PIXY2_BARCODE ->
                [fPointer |-> fPointer + fLength + 2,
                 cr |-> BitOr(acc.cr, PIXY2_BARCODE),
                 features |-> [f EXCEPT !.numBarcodes = fLength \div SizeofBarCode,
                                        !.barcodes = [kind |-> "barcodes",
                                                      at |-> fPointer + 2]]]
          [] OTHER -> [fPointer |-> fPointer, cr |-> acc.cr, features |-> f]

\* MoreFeatures of a loop that is left after its first turn.
MoreFeaturesNever(fPointer) == FALSE

\* while (fPointer < ((dataSize - 1) + dPointer))
MoreFeatures(fPointer) == fPointer < (dataSize - 1) + dPointer

\* The loop from fPointer on.  A turn that leaves fPointer where it was, with
\* the loop condition true, is repeated for ever: the loop does not end.
RECURSIVE FeatureLoop(_, _, _)
FeatureLoop(adj, fPointer, acc) ==
    LET nxt == FeatureAt(adj, fPointer, acc)
    IN  IF ~MoreFeatures(nxt.fPointer)
          THEN [ends |-> TRUE, cr |-> nxt.cr, features |-> nxt.features]
          ELSE IF nxt.fPointer = fPointer
                 THEN [ends |-> FALSE, cr |-> nxt.cr, features |-> nxt.features]
                 ELSE FeatureLoop(adj, nxt.fPointer, nxt)

pixy2_getFeatures(adj) ==
    IF ChecksumFails(adj)
      THEN BadChecksumReturn(adj)
      ELSE IF PixType(adj) = PIXY2_REP_LINE
             THEN LET walk == FeatureLoop(adj, dPointer,
                                          [cr |-> PIXY2_OK, features |-> features])
                  IN  /\ features' = walk.features
                      /\ hung' = ~walk.ends
                      /\ cr' = IF walk.ends THEN walk.cr ELSE cr
                      /\ etat' = IF walk.ends THEN "idle" ELSE etat
                      /\ ptrOut' = NoView
                      /\ UNCHANGED <<local, Pixy2_buffer, wPointer, hPointer, dPointer,
                                     dataSize, frameContainChecksum, Pixy2_numBlocks,
                                     Pixy2_blocks, debugSums, line>>
             ELSE /\ cr' = IF PixType(adj) = PIXY2_REP_ERROR
                             THEN ErrorCodeAt(adj) ELSE PIXY2_TYPE_ERROR
                  /\ ptrOut' = NoView
                  /\ etat' = "idle"
                  /\ UNCHANGED <<local, Pixy2_buffer, wPointer, hPointer, dPointer, dataSize,
                                 frameContainChecksum, members, hung, debugSums, line>>

\* case dataReceived of pixy2_getMainFeature and pixy2_getAllFeature.
DataReceivedFeatures(adj) ==
    /\ etat = "dataReceived"
    /\ ~hung
    /\ branch' = "dataReceived"
    /\ pixy2_getFeatures(adj)

(***************************************************************************)
(* The public commands (pixy2.cpp, lines 390 to 980), with the arguments   *)
(* the user program passes.                                                *)
(***************************************************************************)
ArgBytes == {0, 255}
ArgWords == {511}
ArgAngles == {-90}
ArgColors == {<<255, 0, 0>>, <<0, 0, 0>>}

pixy2_getVersion ==
    \/ IdleCase(pixy2_sndGetVersion)
    \/ \E adj \in UnknownBytes : DataReceivedMap(adj, PIXY2_REP_VERS, "version")
    \/ DefaultCase

pixy2_getResolution ==
    \/ IdleCase(pixy2_sndGetResolution)
    \/ \E adj \in UnknownBytes : DataReceivedMap(adj, PIXY2_REP_RESOL, "resolution")
    \/ DefaultCase

pixy2_setCameraBrightness ==
    \/ \E brightness \in ArgBytes : IdleCase(pixy2_sndSetCameraBrightness(brightness))
    \/ \E adj \in UnknownBytes : DataReceivedAck(adj)
    \/ DefaultCase

pixy2_setServos ==
    \/ \E s0, s1 \in ArgWords : IdleCase(pixy2_sndSetServo(s0, s1))
    \/ \E adj \in UnknownBytes : DataReceivedAck(adj)
    \/ DefaultCase

pixy2_setLED ==
    \/ \E c \in ArgColors : IdleCase(pixy2_sndSetLED(c[1], c[2], c[3]))
    \/ \E adj \in UnknownBytes : DataReceivedAck(adj)
    \/ DefaultCase

pixy2_setLamp ==
    \/ \E upper \in ArgBytes : IdleCase(pixy2_sndSetLamp(upper, 0))
    \/ \E adj \in UnknownBytes : DataReceivedAck(adj)
    \/ DefaultCase

pixy2_getFPS ==
    \/ IdleCase(pixy2_sndGetFPS)
    \/ \E adj \in UnknownBytes : DataReceivedMap(adj, PIXY2_REP_FPS, "framerate")
    \/ DefaultCase

pixy2_getBlocks ==
    \/ \E sigmap \in ArgBytes : IdleCase(pixy2_sndGetBlocks(sigmap, 10))
    \/ \E adj \in UnknownBytes : DataReceivedBlocks(adj)
    \/ DefaultCase

pixy2_getMainFeature ==
    \/ \E f \in ArgBytes : IdleCase(pixy2_sndGetLineFeature(0, f))
    \/ \E adj \in UnknownBytes : DataReceivedFeatures(adj)
    \/ DefaultCase

pixy2_getAllFeature ==
    \/ \E f \in ArgBytes : IdleCase(pixy2_sndGetLineFeature(1, f))
    \/ \E adj \in UnknownBytes : DataReceivedFeatures(adj)
    \/ DefaultCase

pixy2_setMode ==
    \/ \E mode \in ArgBytes : IdleCase(pixy2_sndSetMode(mode))
    \/ \E adj \in UnknownBytes : DataReceivedAck(adj)
    \/ DefaultCase

pixy2_setNextTurn ==
    \/ \E angle \in ArgAngles : IdleCase(pixy2_sndSetNextTurn(angle))
    \/ \E adj \in UnknownBytes : DataReceivedAck(adj)
    \/ DefaultCase

pixy2_setDefaultTurn ==
    \/ \E angle \in ArgAngles : IdleCase(pixy2_sndSetDefaultTurn(angle))
    \/ \E adj \in UnknownBytes : DataReceivedAck(adj)
    \/ DefaultCase

pixy2_setVector ==
    \/ \E vectorIndex \in ArgBytes : IdleCase(pixy2_sndSetVector(vectorIndex))
    \/ \E adj \in UnknownBytes : DataReceivedAck(adj)
    \/ DefaultCase

pixy2_ReverseVector ==
    \/ IdleCase(pixy2_sndReverseVector)
    \/ \E adj \in UnknownBytes : DataReceivedAck(adj)
    \/ DefaultCase

pixy2_getRGB ==
    \/ \E x \in ArgWords, u \in UnknownBytes :
           IdleCase(pixy2_sndGetRGB(x, 104, 1, u, u))
    \/ \E adj \in UnknownBytes : DataReceivedMap(adj, PIXY2_REP_ACK, "pixel")
    \/ DefaultCase

\* A call of any of the public commands.
Command ==
    \/ pixy2_getVersion
    \/ pixy2_getResolution
    \/ pixy2_setCameraBrightness
    \/ pixy2_setServos
    \/ pixy2_setLED
    \/ pixy2_setLamp
    \/ pixy2_getFPS
    \/ pixy2_getBlocks
    \/ pixy2_getMainFeature
    \/ pixy2_getAllFeature
    \/ pixy2_setMode
    \/ pixy2_setNextTurn
    \/ pixy2_setDefaultTurn
    \/ pixy2_setVector
    \/ pixy2_ReverseVector
    \/ pixy2_getRGB

Next ==
    \/ Command
    \/ pixy2_getByte
    \/ CameraReply
    \/ StrayByte

Spec == Init /\ [][Next]_vars


(***************************************************************************)
(* The user program of the documentation (README.md, lines 90 to 118;      *)
(* pixy2.h, lines 157 to 184): pixy2_getBlocks is called in a loop, and    *)
(* nothing else is.                                                        *)
(***************************************************************************)
InitPoll == InitWith(BlockReplies)

NextPoll ==
    \/ pixy2_getBlocks
    \/ pixy2_getByte
    \/ CameraReply
    \/ StrayByte

SpecPoll == InitPoll /\ [][NextPoll]_vars

(***************************************************************************)
(* pixy2_validateChecksum on its own: the buffer holds, at hPointer, a     *)
(* frame the camera built with the checksum of its payload; a bit of the   *)
(* payload may be inverted on the way, and the frame is validated as case  *)
(* dataReceived does it (pixy2.cpp, lines 405 to 406).                     *)
(***************************************************************************)
\* The payloads: every sequence of at most MaxPayload of the bytes below, and
\* one of MaxLongPayload bytes.
PayloadBytes == {0, 1, 128, 255}

LongPayload == [i \in 1..MaxLongPayload |-> 255]

Payloads ==
    UNION {[1..n -> PayloadBytes] : n \in 0..MaxPayload} \cup {LongPayload}

\* The byte b with its bit k inverted.
FlipBit(b, k) == IF (b \div 2^k) % 2 = 1 THEN b - 2^k ELSE b + 2^k

InitChecksum ==
    \E p \in Payloads :
        LET f == ReplyFrame(PIXY2_CSSYNC, PIXY2_REP_ACK, p, 0)
        IN  /\ etat = IF p = <<>> THEN "idle" ELSE "dataReceived"
            /\ Pixy2_buffer = [i \in 0..(BufferSize - 1) |->
                                  IF i < Len(f) THEN f[i + 1] ELSE 0]
            /\ wPointer = ByteOf(Len(f))
            /\ hPointer = 0
            /\ dPointer = PIXY2_CSHEADERSIZE
            /\ dataSize = Len(p)
            /\ frameContainChecksum = 1
            /\ Pixy2_numBlocks = 0
            /\ Pixy2_blocks = NoView
            /\ features = [numVectors |-> 0, numIntersections |-> 0,
                           numBarcodes |-> 0, vectors |-> NoView,
                           intersections |-> NoView, barcodes |-> NoView]
            /\ ptrOut = NoView
            /\ cr = PIXY2_OK
            /\ branch = "none"
            /\ hung = FALSE
            /\ debugSums = <<0, 0>>
            /\ tx = <<>>
            /\ txCount = 1
            /\ rx = <<>>
            /\ strays = 0
            /\ delivered = f
            /\ camera = {f}
            /\ pc = "out"
            /\ msg = 0

\* One bit of one payload byte of the frame, so far as the camera sent it, is
\* inverted.
FlipPayloadBit ==
    /\ [i \in 1..Len(delivered) |-> Pixy2_buffer[hPointer + i - 1]] = delivered
    /\ \E i \in dPointer..(dPointer + dataSize - 1), k \in 0..7 :
          Pixy2_buffer' = [Pixy2_buffer EXCEPT ![i] = FlipBit(@, k)]
    /\ UNCHANGED <<local, etat, wPointer, hPointer, dPointer, dataSize,
                   frameContainChecksum, members, ptrOut, cr, branch, hung,
                   debugSums, line>>

\* pixy2_validateChecksum (&Pixy2_buffer[hPointer])
ValidateFrame ==
    /\ \E adj \in UnknownBytes :
          /\ cr' = pixy2_validateChecksum(Pixy2_buffer, adj, hPointer)
          /\ debugSums' = IF cr' = PIXY2_OK THEN debugSums
                          ELSE <<SumLoop(Pixy2_buffer, adj, hPointer, 0, 0),
                                 ReceivedSum(Pixy2_buffer, adj, hPointer)>>
    /\ branch' = "checksum"
    /\ UNCHANGED <<local, engine, members, ptrOut, hung, line>>

NextChecksum ==
    \/ FlipPayloadBit
    \/ ValidateFrame

SpecChecksum == InitChecksum /\ [][NextChecksum]_vars

(***************************************************************************)
(* The serial line looped back: no camera is attached, and what the        *)
(* commands write on the line comes back, byte after byte, to the          *)
(* interrupt.                                                              *)
(***************************************************************************)
InitLoopBack == InitWith({})

\* The request that was written comes back on the receive side.
LoopBack ==
    /\ tx # <<>>
    /\ rx' = rx \o tx
    /\ tx' = <<>>
    /\ UNCHANGED <<local, engine, members, ptrOut, cr, branch, hung, debugSums, txCount, strays,
                   delivered, camera>>

NextLoopBack ==
    \/ Command
    \/ pixy2_getByte
    \/ LoopBack

SpecLoopBack == InitLoopBack /\ [][NextLoopBack]_vars

(***************************************************************************)
(* The user program of the documentation in front of a camera that has     *)
(* much to report: the length byte of a reply goes up to 255, so that a    *)
(* reply is up to 261 bytes long, and the buffer is 256 bytes long.        *)
(***************************************************************************)
\* 18 blocks, 252 bytes, in a frame without checksum: a reply that fills the
\* buffer.
RepFullBlocks ==
    ReplyFrame(PIXY2_SYNC, PIXY2_REP_BLOC,
               [i \in 1..(BufferSize - PIXY2_NCSHEADERSIZE) |-> (i % 14) + 1], 0)

\* A reply of 255 bytes of payload.
RepLongBlocks ==
    ReplyFrame(PIXY2_SYNC, PIXY2_REP_BLOC, [i \in 1..255 |-> (i % 14) + 1], 0)

LongReplies == {RepFullBlocks, RepLongBlocks}

InitLongReply == InitWith(LongReplies)

SpecLongReply == InitLongReply /\ [][NextPoll]_vars

(***************************************************************************)
(* A user program that follows a line: pixy2_getMainFeature and            *)
(* pixy2_getAllFeature are called in a loop, and the camera answers with   *)
(* line replies, whose payload is a sequence of features: a type byte, a   *)
(* length byte and length bytes of data (T_pixy2LineFeature).              *)
(***************************************************************************)
\* Elements of the three kinds (T_pixy2Vector, T_pixy2BarCode,
\* T_pixy2Intersection).
OneVector == <<10, 20, 30, 40, 0, 0>>
OneBarCode == <<50, 60, 0, 5>>
OneIntersection ==
    <<39, 25, 3, 0>> \o <<1, 0, 0, 0>> \o <<2, 0, 90, 0>> \o <<3, 0, 166, 255>>
        \o [i \in 1..12 |-> 0]

\* A feature of the given type with its data.
Feature(fType, data) == <<fType, Len(data)>> \o data

\* One vector, then one barcode.
RepVectorBarCode ==
    ReplyFrame(PIXY2_CSSYNC, PIXY2_REP_LINE,
               Feature(PIXY2_VECTOR, OneVector)
                   \o Feature(PIXY2_BARCODE, OneBarCode), 0)

\* Two barcodes, then one intersection, then two vectors, without checksum.
RepAllFeatures ==
    ReplyFrame(PIXY2_SYNC, PIXY2_REP_LINE,
               Feature(PIXY2_BARCODE, OneBarCode \o OneBarCode)
                   \o Feature(PIXY2_INTERSECTION, OneIntersection)
                   \o Feature(PIXY2_VECTOR, OneVector \o OneVector), 0)

\* Two features of the same type.
RepTwoVectorFeatures ==
    ReplyFrame(PIXY2_CSSYNC, PIXY2_REP_LINE,
               Feature(PIXY2_VECTOR, OneVector)
                   \o Feature(PIXY2_VECTOR, OneVector), 0)

\* A line reply that was corrupted.
RepLineBadSum ==
    ReplyFrame(PIXY2_CSSYNC, PIXY2_REP_LINE, Feature(PIXY2_VECTOR, OneVector), 1)

LineReplies ==
    {RepVectorBarCode, RepAllFeatures, RepTwoVectorFeatures, RepLineBadSum,
     RepErrorMinus2, RepAck}

InitLine == InitWith(LineReplies)

NextLine ==
    \/ pixy2_getMainFeature
    \/ pixy2_getAllFeature
    \/ pixy2_getByte
    \/ CameraReply

SpecLine == InitLine /\ [][NextLine]_vars

(***************************************************************************)
(* Every command in front of a camera that answers with a version, with    *)
(* features of a line, with an error or with a corrupted frame, whatever   *)
(* it was asked.                                                           *)
(***************************************************************************)
MixedReplies == {RepVersion, RepVersionBadSum, RepVectorBarCode, RepErrorMinus2}

InitMixed == InitWith(MixedReplies)

SpecMixed == InitMixed /\ [][Next]_vars

(***************************************************************************)
(* A noisy line: the reply of the camera is preceded, or followed, by      *)
(* bytes that belong to no frame ("Si ce n'est pas le cas, on continue de  *)
(* recevoir les octets et on les stock jusqu'a trouver le code de debut de *)
(* trame", pixy2.cpp, lines 57 to 59).  The noise holds no sync word, and  *)
(* forms none with the first byte of the frame.                            *)
(***************************************************************************)
\* k bytes of noise: the bytes of pat, repeated.
Noise(k, pat) == [i \in 1..k |-> pat[((i - 1) % Len(pat)) + 1]]

\* The low bytes of the two sync words without the high byte behind them, and
\* the high byte without a low byte before it.
NoisePatterns == <<  <<193>>, <<174, 194>>, <<175, 173, 193>>  >>

NoisyReplies ==
    { Noise(3, NoisePatterns[1]) \o RepVersion,
      Noise(2, NoisePatterns[2]) \o RepNoBlock,
      Noise(5, NoisePatterns[3]) \o RepVersionNoSum,
      Noise(BufferSize - 6, NoisePatterns[2]) \o RepAck,
      Noise(BufferSize - 4, NoisePatterns[1]) \o RepAck,
      Noise(BufferSize - 3, NoisePatterns[3]) \o RepVersionNoSum }

InitNoise == InitWith(NoisyReplies)

NextNoise ==
    \/ pixy2_getVersion
    \/ pixy2_getByte
    \/ CameraReply

SpecNoise == InitNoise /\ [][NextNoise]_vars

(***************************************************************************)
(* A camera that goes on sending after its reply: 17 blocks in a frame     *)
(* without checksum (242 bytes), then 17 bytes that belong to no frame,    *)
(* in front of the user program of the documentation.                      *)
(***************************************************************************)
RepManyBlocks ==
    ReplyFrame(PIXY2_SYNC, PIXY2_REP_BLOC,
               [i \in 1..(17 * SizeofBloc) |-> (i % 14) + 1], 0)

TrailingReplies == {RepManyBlocks \o Noise(17, NoisePatterns[1])}

InitTrailing == InitWith(TrailingReplies)

NextTrailing ==
    \/ pixy2_getBlocks
    \/ pixy2_getByte
    \/ CameraReply

SpecTrailing == InitTrailing /\ [][NextTrailing]_vars

(***************************************************************************)
(* The user program that follows a line in front of a camera whose line    *)
(* replies hold any bytes: every payload of 1 to MaxFeatureBytes of the    *)
(* bytes below (the three feature types, 0, and the size of a vector).     *)
(***************************************************************************)
FeatureBytes == {0, PIXY2_VECTOR, PIXY2_INTERSECTION, PIXY2_BARCODE, SizeofVector}

LinePayloads == UNION {[1..n -> FeatureBytes] : n \in 1..MaxFeatureBytes}

InitAnyLine ==
    \E p \in LinePayloads : InitWith({ReplyFrame(PIXY2_SYNC, PIXY2_REP_LINE, p, 0)})

SpecAnyLine == InitAnyLine /\ [][NextLine]_vars

(***************************************************************************)
(* The user program of the documentation in front of a camera that sees    *)
(* blocks: one block, two blocks in a frame without checksum, a block and  *)
(* a half (21 bytes), a corrupted frame, an error.                         *)
(***************************************************************************)
RepTwoBlocks == ReplyFrame(PIXY2_SYNC, PIXY2_REP_BLOC, BlockPayload \o BlockPayload, 0)

RepBlockAndHalf ==
    ReplyFrame(PIXY2_CSSYNC, PIXY2_REP_BLOC,
               BlockPayload \o SubSeq(BlockPayload, 1, 7), 0)

RepOneBlockBadSum == ReplyFrame(PIXY2_CSSYNC, PIXY2_REP_BLOC, BlockPayload, 1)

SeenBlocks == {RepOneBlock, RepTwoBlocks, RepBlockAndHalf, RepOneBlockBadSum, RepError2}

InitBlocks == InitWith(SeenBlocks)

SpecBlocks == InitBlocks /\ [][NextPoll]_vars

(***************************************************************************)
(* A transaction to its end: the user program calls pixy2_getBlocks again  *)
(* and again (README.md, lines 90 to 118), the camera answers each request *)
(* with one well formed reply whose length byte is 0, 14, 28 or 255, the   *)
(* line adds nothing, and the interrupt is served for every byte.          *)
(***************************************************************************)
WellFormedReplies == {RepNoBlock, RepOneBlock, RepTwoBlocks, RepLongBlocks}

InitLive == InitWith(WellFormedReplies)

SpecLive ==
    /\ InitLive
    /\ [][NextTrailing]_vars
    /\ WF_vars(pixy2_getBlocks)
    /\ WF_vars(pixy2_getByte)
    /\ WF_vars(CameraReply)

(***************************************************************************)
(* Vocabulary of the properties.                                           *)
(***************************************************************************)
\* The states in which a transaction is in flight and not yet complete.
InFlight == {"messageSent", "receivingHeader", "receivingData"}

\* A step that writes a request frame on the serial line.
Transmits == txCount' # txCount \/ (tx' # tx /\ tx' # <<>>)

\* The bytes of the buffer from index from to index to.
Stored(from, to) == [i \in 1..(to - from + 1) |-> Pixy2_buffer[from + i - 1]]

\* The payload of the frame whose header is at hPointer, as the length byte
\* of that header delimits it.
StoredPayload == Stored(dPointer, dPointer + Pixy2_buffer[hPointer + 3] - 1)

\* The checksum field of the stored frame is the sum of its payload.
SumMatches ==
    MotOf(Pixy2_buffer[hPointer + 4], Pixy2_buffer[hPointer + 5])
        = SumBytes(StoredPayload) % 65536

\* The reply is complete and passes the checksum, or carries none.
CompletePassing ==
    etat = "dataReceived" /\ (frameContainChecksum = 0 \/ SumMatches)

\* The reply is complete, carries a checksum and fails it.
CompleteFailing ==
    etat = "dataReceived" /\ frameContainChecksum # 0 /\ ~SumMatches

\* The type byte of the stored frame.
StoredType == Pixy2_buffer[hPointer + 2]

(***************************************************************************)
(* C1: a call of any command while the state is Sent, ReceivingHeader or   *)
(* ReceivingPayload returns Busy and has no side effect: nothing is        *)
(* transmitted, and the state, the cursors, the payload length, the        *)
(* checksum flag, the buffer and the public results are left as they were, *)
(* however many times the call is repeated.                                *)
(***************************************************************************)
C1_BusyWithoutSideEffect ==
    [][(Command /\ etat \in InFlight) =>
          /\ cr' = PIXY2_BUSY
          /\ ~Transmits
          /\ UNCHANGED <<engine, members, line>>]_vars

\* A call was answered by the default case while a reply was being received.
C1_Witness ==
    /\ branch = "default"
    /\ cr = PIXY2_BUSY
    /\ etat = "receivingData"
    /\ txCount = 1

(***************************************************************************)
(* C2: a call of a command while the state is Idle resets the write cursor *)
(* to zero, transmits the request frame of that command (the sync word     *)
(* 0xC1AE, the opcode of the command, the length, the payload), sets the   *)
(* state to Sent and returns Busy.                                         *)
(***************************************************************************)
Starts(opcode) ==
    /\ wPointer' = 0
    /\ txCount' = txCount + 1
    /\ Len(tx') = 4 + tx'[4]
    /\ <<tx'[1], tx'[2], tx'[3]>> = <<174, 193, opcode>>
    /\ etat' = "messageSent"
    /\ cr' = PIXY2_BUSY

C2_IdleStartsTransaction ==
    [][etat = "idle" =>
          /\ pixy2_getVersion => Starts(14)
          /\ pixy2_getResolution => Starts(12)
          /\ pixy2_setCameraBrightness => Starts(16)
          /\ pixy2_setServos => Starts(18)
          /\ pixy2_setLED => Starts(20)
          /\ pixy2_setLamp => Starts(22)
          /\ pixy2_getFPS => Starts(24)
          /\ pixy2_getBlocks => Starts(32)
          /\ pixy2_getMainFeature => Starts(48)
          /\ pixy2_getAllFeature => Starts(48)
          /\ pixy2_setMode => Starts(54)
          /\ pixy2_setNextTurn => Starts(58)
          /\ pixy2_setDefaultTurn => Starts(60)
          /\ pixy2_setVector => Starts(56)
          /\ pixy2_ReverseVector => Starts(62)
          /\ pixy2_getRGB => Starts(112)]_vars

\* The second transaction has just been started: the write cursor, which the
\* first reply had moved, is back to zero.
C2_Witness ==
    /\ branch = "idle"
    /\ txCount = 2
    /\ etat = "messageSent"
    /\ wPointer = 0
    /\ delivered = <<>>
    /\ tx # <<>>

(***************************************************************************)
(* C3: one transaction at most is in flight: a request frame is            *)
(* transmitted only by a call made while the state is Idle, which makes    *)
(* the state Sent, so that no call transmits until the state is Idle       *)
(* again; and a call is answered Busy unless the state is Idle or Complete.*)
(***************************************************************************)
C3_OneTransactionInFlight ==
    [][/\ Transmits => (Command /\ etat = "idle" /\ etat' = "messageSent"
                          /\ txCount' = txCount + 1)
       /\ (Command /\ etat \notin {"idle", "dataReceived"}) =>
              (cr' = PIXY2_BUSY /\ etat' = etat)]_vars

\* A second request was sent, after the first transaction was over.
C3_Witness ==
    /\ txCount = 2
    /\ etat = "receivingHeader"
    /\ branch = "default"

(***************************************************************************)
(* C4: a call returns something else than Busy only when the state was     *)
(* Complete when it was called, and then the sync word, the whole header   *)
(* and the payload-length bytes of the payload are in the buffer, stored   *)
(* in the order in which the interrupt was given them.                     *)
(***************************************************************************)
FrameStoredInOrder ==
    /\ IsSyncWord(MotOf(Pixy2_buffer[hPointer], Pixy2_buffer[hPointer + 1]))
    /\ dPointer = hPointer + (IF frameContainChecksum # 0 THEN 6 ELSE 4)
    /\ dataSize = Pixy2_buffer[hPointer + 3]
    /\ dataSize > 0
    /\ Len(delivered) >= dPointer + dataSize
    /\ SubSeq(delivered, hPointer + 1, dPointer + dataSize)
         = Stored(hPointer, dPointer + dataSize - 1)

C4_ResultOnlyWhenComplete ==
    [][(Command /\ cr' # PIXY2_BUSY) =>
          (etat = "dataReceived" /\ FrameStoredInOrder)]_vars

\* A call has just read a complete reply and returned its result.
C4_Witness ==
    /\ branch = "dataReceived"
    /\ cr = PIXY2_OK
    /\ ptrOut.kind = "resolution"
    /\ etat = "idle"


(***************************************************************************)
(* C5: when the user program polls a command in a loop, the order is sent  *)
(* once: a request is written on the serial line only by the first call,   *)
(* or by a call that follows one which returned the result of the previous *)
(* order (a return code other than Busy); every call in between returns    *)
(* Busy and sends nothing.                                                 *)
(***************************************************************************)
C5_OrderSentOnce ==
    [][Transmits =>
          (branch = "none" \/ (branch = "dataReceived" /\ cr # PIXY2_BUSY))]_vars

(***************************************************************************)
(* C6: when the camera answered with the sync word 0xC1AF, the type 15,    *)
(* the length 13, the checksum of the payload and 13 bytes of payload, a   *)
(* call of pixy2_getVersion returns PIXY2_OK, the version is mapped at the *)
(* data cursor, where the bytes are the payload the camera sent, and the   *)
(* state is Idle afterwards.                                               *)
(***************************************************************************)
\* What the interrupt was given from the sync word of the frame on.
Injected == SubSeq(delivered, hPointer + 1, Len(delivered))

IsVersionReply(f) ==
    /\ Len(f) >= 19
    /\ <<f[1], f[2], f[3], f[4]>> = <<175, 193, 15, 13>>
    /\ f[5] + 256 * f[6] = SumBytes(SubSeq(f, 7, 19)) % 65536

C6_GetVersionReply ==
    [][(pixy2_getVersion /\ etat = "dataReceived" /\ IsVersionReply(Injected)) =>
          /\ cr' = PIXY2_OK
          /\ ptrOut' = [kind |-> "version", at |-> dPointer]
          /\ [i \in 1..13 |-> Pixy2_buffer'[ptrOut'.at + i - 1]]
               = SubSeq(Injected, 7, 19)
          /\ etat' = "idle"]_vars

\* pixy2_getVersion has mapped the version of a reply that had a checksum.
C6_Witness ==
    /\ branch = "dataReceived"
    /\ cr = PIXY2_OK
    /\ ptrOut = [kind |-> "version", at |-> dPointer]
    /\ frameContainChecksum = 1
    /\ Stored(dPointer, dPointer + 12) = VersionPayload
    /\ etat = "idle"

(***************************************************************************)
(* C7: when the complete reply passes the checksum and its type is the     *)
(* error type 3, the call returns the code its 4 bytes of payload carry,   *)
(* least significant byte first (2 for 02 00 00 00), and not PIXY2_OK; the *)
(* pointer of the caller and the public results are not written; the state *)
(* is Idle afterwards.                                                     *)
(***************************************************************************)
\* n is the signed 32 bit value of the 4 bytes of p, least significant first.
IsCodeOf(n, p) ==
    /\ n % 16777216 = p[1] + 256 * p[2] + 65536 * p[3]
    /\ (n \div 16777216) % 256 = p[4]
    /\ n \div 16777216 \in -128..127

C7_ErrorReply ==
    [][(Command /\ CompletePassing /\ StoredType = 3
          /\ Pixy2_buffer[hPointer + 3] = 4) =>
          LET p == SubSeq(delivered, dPointer + 1, dPointer + 4)
          IN  /\ IsCodeOf(cr', p)
              /\ p = <<2, 0, 0, 0>> => cr' = 2
              /\ p # <<0, 0, 0, 0>> => cr' # PIXY2_OK
              /\ ptrOut' = NoView
              /\ UNCHANGED members
              /\ etat' = "idle"]_vars

\* A call has returned the code 2 of an error reply.
C7_Witness ==
    /\ branch = "dataReceived"
    /\ cr = 2
    /\ StoredType = 3
    /\ Stored(dPointer, dPointer + 3) = <<2, 0, 0, 0>>
    /\ ptrOut = NoView
    /\ etat = "idle"

(***************************************************************************)
(* C8: when the complete reply carries a checksum that does not match its  *)
(* payload, the call returns PIXY2_BAD_CHECKSUM and the state is Idle      *)
(* afterwards, so that the next call starts a new transaction.             *)
(***************************************************************************)
C8_BadChecksumBackToIdle ==
    [][(Command /\ CompleteFailing) =>
          (cr' = PIXY2_BAD_CHECKSUM /\ etat' = "idle")]_vars

(***************************************************************************)
(* C9: when the checksum does not match, the call returns                  *)
(* PIXY2_BAD_CHECKSUM and leaves the transaction Complete: the state, the  *)
(* cursors, the payload length, the checksum flag and the buffer are       *)
(* unchanged.                                                              *)
(***************************************************************************)
C9_BadChecksumStaysComplete ==
    [][(Command /\ CompleteFailing) =>
          /\ cr' = PIXY2_BAD_CHECKSUM
          /\ etat' = "dataReceived"
          /\ UNCHANGED engine]_vars

\* A call has refused a reply whose checksum does not match.
C9_Witness ==
    /\ branch = "dataReceived"
    /\ cr = PIXY2_BAD_CHECKSUM
    /\ CompleteFailing

(***************************************************************************)
(* C10: when the complete reply passes the checksum, or carries none, and  *)
(* its type is neither the type the command expects nor the error type 3,  *)
(* the call returns PIXY2_TYPE_ERROR; and whatever a call returns once the *)
(* checksum has passed (PIXY2_OK, the code of the camera, the type error), *)
(* the state is Idle afterwards.                                           *)
(***************************************************************************)
Unexpected(expected) == StoredType \notin {expected, 3}

C10_TypeError ==
    [][CompletePassing =>
          /\ (Command /\ ~hung') => etat' = "idle"
          /\ (pixy2_getVersion /\ Unexpected(15)) => cr' = PIXY2_TYPE_ERROR
          /\ (pixy2_getResolution /\ Unexpected(13)) => cr' = PIXY2_TYPE_ERROR
          /\ (pixy2_getFPS /\ Unexpected(1)) => cr' = PIXY2_TYPE_ERROR
          /\ (pixy2_getRGB /\ Unexpected(1)) => cr' = PIXY2_TYPE_ERROR
          /\ (pixy2_getBlocks /\ Unexpected(33)) => cr' = PIXY2_TYPE_ERROR
          /\ (pixy2_getMainFeature /\ Unexpected(49)) => cr' = PIXY2_TYPE_ERROR
          /\ (pixy2_getAllFeature /\ Unexpected(49)) => cr' = PIXY2_TYPE_ERROR
          /\ (pixy2_setCameraBrightness /\ Unexpected(1)) => cr' = PIXY2_TYPE_ERROR
          /\ (pixy2_setServos /\ Unexpected(1)) => cr' = PIXY2_TYPE_ERROR
          /\ (pixy2_setLED /\ Unexpected(1)) => cr' = PIXY2_TYPE_ERROR
          /\ (pixy2_setLamp /\ Unexpected(1)) => cr' = PIXY2_TYPE_ERROR
          /\ (pixy2_setMode /\ Unexpected(1)) => cr' = PIXY2_TYPE_ERROR
          /\ (pixy2_setNextTurn /\ Unexpected(1)) => cr' = PIXY2_TYPE_ERROR
          /\ (pixy2_setDefaultTurn /\ Unexpected(1)) => cr' = PIXY2_TYPE_ERROR
          /\ (pixy2_setVector /\ Unexpected(1)) => cr' = PIXY2_TYPE_ERROR
          /\ (pixy2_ReverseVector /\ Unexpected(1)) => cr' = PIXY2_TYPE_ERROR]_vars

\* A call has found a reply of a type it does not expect.
C10_Witness ==
    /\ branch = "dataReceived"
    /\ cr = PIXY2_TYPE_ERROR
    /\ frameContainChecksum = 0
    /\ StoredType = 15
    /\ etat = "idle"


(***************************************************************************)
(* C11: checksum round trip.  A frame with the checksum sync word whose    *)
(* checksum field (at hPointer + 4, least significant byte first) is the   *)
(* sum of its payload bytes modulo 2^16 passes pixy2_validateChecksum; the *)
(* same frame with one bit of one payload byte inverted fails it.          *)
(***************************************************************************)
\* The frame as it is in the buffer.
StoredFrame == Stored(hPointer, hPointer + Len(delivered) - 1)

\* f is a frame with a header of 6 bytes and the checksum of its payload.
HasItsChecksum(f) ==
    /\ Len(f) = 6 + f[4]
    /\ f[5] + 256 * f[6] = SumBytes(SubSeq(f, 7, Len(f))) % 65536

\* g is f with one bit of one payload byte inverted.
OneBitApart(f, g) ==
    \E i \in 7..Len(f), k \in 0..7 : g = [f EXCEPT ![i] = FlipBit(@, k)]

C11_ChecksumRoundTrip ==
    [][(ValidateFrame /\ HasItsChecksum(delivered)) =>
          /\ StoredFrame = delivered => cr' = PIXY2_OK
          /\ OneBitApart(delivered, StoredFrame) => cr' = PIXY2_BAD_CHECKSUM]_vars

\* The long frame has been refused after one of its bits was inverted.
C11_Witness ==
    /\ branch = "checksum"
    /\ cr = PIXY2_BAD_CHECKSUM
    /\ HasItsChecksum(delivered)
    /\ OneBitApart(delivered, StoredFrame)
    /\ dataSize = MaxLongPayload


(***************************************************************************)
(* C12: loop back.  For every command, when the bytes of its request frame *)
(* have been given in order to the interrupt, which was in state Sent with *)
(* the write pointer at zero, the state is Complete, dPointer is 4 and     *)
(* dataSize is the payload length of the request.                          *)
(***************************************************************************)
\* The whole request has come back and no call has been made since that
\* could have read it.
LoopedBack ==
    /\ branch \in {"idle", "default"}
    /\ tx = <<>>
    /\ rx = <<>>
    /\ Len(delivered) >= 4
    /\ Len(delivered) = 4 + delivered[4]

C12_LoopBackCompletes ==
    LoopedBack =>
        (etat = "dataReceived" /\ dPointer = 4 /\ dataSize = delivered[4])

\* What the looped back requests do reach: Complete when they carry a payload.
C12_LoopBackWithPayload ==
    (LoopedBack /\ delivered[4] > 0) =>
        (etat = "dataReceived" /\ dPointer = 4 /\ dataSize = delivered[4])


(***************************************************************************)
(* C13: in every reachable state where the state is ReceivingPayload,      *)
(* dataSize has been set and is the length byte of the current frame, the  *)
(* byte of the buffer at hPointer + 3.                                     *)
(***************************************************************************)
C13_PayloadLengthIsLengthByte ==
    etat = "receivingData" =>
        (dataSize > 0 /\ dataSize = Pixy2_buffer[hPointer + 3])


(***************************************************************************)
(* C14: when the interrupt sets the state to Complete, and the byte that   *)
(* completes the frame has been counted, wPointer = dPointer + dataSize:   *)
(* exactly dataSize bytes have been stored from dPointer on; the state     *)
(* becomes Complete on that byte, neither on an earlier nor on a later     *)
(* one.                                                                    *)
(***************************************************************************)
\* The interrupt sets the state to Complete.
Completes == etat # "dataReceived" /\ etat' = "dataReceived"

\* The byte the interrupt stores is the last of the dataSize bytes of the
\* payload (wPointer was 0 when the request was sent).
LastPayloadByte ==
    etat = "receivingData" /\ Len(delivered') = dPointer + dataSize

C14_CompleteOnLastPayloadByte ==
    [][pixy2_getByte =>
          /\ Completes <=> LastPayloadByte
          /\ Completes => wPointer' = dPointer' + dataSize']_vars


(***************************************************************************)
(* C15: the order of the cursors.  As the specification states it: in      *)
(* every reachable state, hPointer <= dPointer <= wPointer.                *)
(***************************************************************************)
C15_CursorsOrdered == hPointer <= dPointer /\ dPointer <= wPointer

(***************************************************************************)
(* C15, as the program has it: the cursors are ordered while a frame is in *)
(* the buffer and fewer than 256 bytes have been received since the        *)
(* request.  While the payload is received and once it is complete,        *)
(* hPointer <= dPointer <= wPointer.  While the header is received the     *)
(* write pointer is between the two others: hPointer < wPointer <          *)
(* hPointer + header size, and dPointer is hPointer + header size modulo   *)
(* 256.  Nothing orders them after the construction, nor in state Sent,    *)
(* where wPointer was set back to 0.                                       *)
(***************************************************************************)
HeaderSize == IF frameContainChecksum # 0 THEN 6 ELSE 4

C15_CursorsOrderedInFrame ==
    Len(delivered) < 256 =>
        /\ etat \in {"receivingData", "dataReceived"} =>
              (hPointer <= dPointer /\ dPointer <= wPointer)
        /\ etat = "receivingHeader" =>
              /\ hPointer < wPointer
              /\ wPointer < hPointer + HeaderSize
              /\ dPointer = (hPointer + HeaderSize) % 256

\* The payload of a frame that came after a byte of noise is being received,
\* and the write pointer is about to wrap.
C15_Witness ==
    /\ etat = "receivingData"
    /\ Len(delivered) = 255
    /\ <<hPointer, dPointer, wPointer>> = <<1, 5, 255>>


(***************************************************************************)
(* C16: decoding several records.  When a line command reads a complete    *)
(* line reply that passes the checksum and whose payload is a sequence of  *)
(* records (type, length, data) of recognised and distinct kinds, then for *)
(* each record the count of its kind is length / element size (vector 6,   *)
(* intersection 28, barcode 4) and the view of its kind is at the offset   *)
(* of the record + 2, a record beginning 2 + length bytes after the one    *)
(* before it.                                                              *)
(***************************************************************************)
\* The records of the payload p from its index i on, as the protocol lays
\* them out: each begins 2 + length bytes after the one before it.
RECURSIVE RecordsFrom(_, _)
RecordsFrom(p, i) ==
    IF i + 1 > Len(p)
      THEN <<>>
      ELSE <<[fType |-> p[i], fLength |-> p[i + 1], at |-> i]>>
               \o RecordsFrom(p, i + 2 + p[i + 1])

Records == RecordsFrom(StoredPayload, 1)

\* The payload is made of whole records of the three kinds.
WholeRecords ==
    /\ Records # <<>>
    /\ \A k \in 1..Len(Records) : Records[k].fType \in {1, 2, 4}
    /\ LET last == Records[Len(Records)]
       IN  last.at + 1 + last.fLength = Len(StoredPayload)

DistinctKinds ==
    \A j, k \in 1..Len(Records) : j # k => Records[j].fType # Records[k].fType

\* A line command reads a complete line reply that passes the checksum.
ReadsLineReply ==
    /\ pixy2_getMainFeature \/ pixy2_getAllFeature
    /\ CompletePassing
    /\ StoredType = 49

\* The record r of the payload is what the public members of its kind show
\* after the call.
Decoded(r) ==
    LET offset == dPointer + r.at - 1
    IN  /\ r.fType = 1 =>
              /\ features'.numVectors = r.fLength \div 6
              /\ features'.vectors = [kind |-> "vectors", at |-> offset + 2]
        /\ r.fType = 2 =>
              /\ features'.numIntersections = r.fLength \div 28
              /\ features'.intersections =
                     [kind |-> "intersections", at |-> offset + 2]
        /\ r.fType = 4 =>
              /\ features'.numBarcodes = r.fLength \div 4
              /\ features'.barcodes = [kind |-> "barcodes", at |-> offset + 2]

C16_MultiRecordDecode ==
    [][(ReadsLineReply /\ WholeRecords /\ DistinctKinds) =>
          \A k \in 1..Len(Records) : Decoded(Records[k])]_vars

\* One vector and one barcode have been decoded from the same reply.
C16_Witness ==
    /\ branch = "dataReceived"
    /\ StoredType = 49
    /\ StoredPayload = <<1, 6>> \o OneVector \o <<4, 4>> \o OneBarCode
    /\ features.numVectors = 1
    /\ features.vectors = [kind |-> "vectors", at |-> dPointer + 2]
    /\ features.numBarcodes = 1
    /\ features.barcodes = [kind |-> "barcodes", at |-> dPointer + 10]
    /\ etat = "idle"

(***************************************************************************)
(* C17: when a line command reads a complete line reply that passes the    *)
(* checksum, it returns the bitwise or of the codes (1 vector, 2           *)
(* intersection, 4 barcode) of exactly the kinds of records that are in    *)
(* the payload; a line command returns a negative value only when it has   *)
(* no such reply to report (busy, bad checksum, other type, error reply).  *)
(***************************************************************************)
\* 1 when a record of that type is in the payload, 0 otherwise.
Has(fType) == IF \E k \in 1..Len(Records) : Records[k].fType = fType THEN 1 ELSE 0

Silent == etat = "messageSent" /\ delivered = <<>>

C18_SilentCameraKeepsBusy ==
    [][Silent =>
          /\ Command => (cr' = PIXY2_BUSY /\ ~Transmits /\ Silent')
          /\ ~pixy2_getByte => etat' = "messageSent"]_vars

\* A call has been answered PIXY2_BUSY while the request, still on the line,
\* has had no answer.
C18_Witness ==
    /\ Silent
    /\ branch = "default"
    /\ cr = PIXY2_BUSY
    /\ tx # <<>>
    /\ rx = <<>>


(***************************************************************************)
(* C19: the return codes.  As the documentation states it: on any return   *)
(* other than PIXY2_OK no data is produced, the views and the counts the   *)
(* caller can read are not modified.                                       *)
(***************************************************************************)
\* The call writes neither through the pointer it was given nor in the
\* public members.
Untouched == ptrOut' = NoView /\ UNCHANGED members

LineCommand == pixy2_getMainFeature \/ pixy2_getAllFeature

OtherCommand ==
    \/ pixy2_getVersion
    \/ pixy2_getResolution
    \/ pixy2_setCameraBrightness
    \/ pixy2_setServos
    \/ pixy2_setLED
    \/ pixy2_setLamp
    \/ pixy2_getFPS
    \/ pixy2_getBlocks
    \/ pixy2_setMode
    \/ pixy2_setNextTurn
    \/ pixy2_setDefaultTurn
    \/ pixy2_setVector
    \/ pixy2_ReverseVector
    \/ pixy2_getRGB

Transition(from, to) == etat = from /\ etat' = to

C20_Transitions ==
    [][etat' # etat =>
          \/ Command /\ Transition("idle", "messageSent")
          \/ pixy2_getByte /\ Transition("messageSent", "receivingHeader")
          \/ pixy2_getByte /\ Transition("receivingHeader", "receivingData")
          \/ /\ pixy2_getByte /\ Transition("receivingHeader", "idle")
             /\ Pixy2_buffer'[hPointer + 3] = 0
          \/ pixy2_getByte /\ Transition("receivingData", "dataReceived")
          \/ Command /\ Transition("dataReceived", "idle")]_vars

\* The interrupt has brought the state back to Idle on a header with the
\* length 0, and a second request has been sent since.
C20_Witness ==
    /\ etat = "messageSent"
    /\ txCount = 2
    /\ Pixy2_buffer[hPointer + 3] = 0
    /\ dataSize = 0
    /\ cr = PIXY2_BUSY
    /\ branch = "idle"

(***************************************************************************)
(* C21: in state Sent, a byte stored at the write cursor w >= 1 moves the  *)
(* state to ReceivingHeader if and only if the 16 bit word of buffer[w-1]  *)
(* (low) and buffer[w] (high) is 0xC1AE or 0xC1AF; then the header cursor  *)
(* is w - 1, the checksum flag is set exactly for 0xC1AF and the data      *)
(* cursor is the header cursor + 4 (no checksum) or + 6 (checksum).  A     *)
(* byte stored at w = 0 is not tested.                                     *)
(***************************************************************************)
\* The word made of the byte just stored and of the byte before it.
LastWord == Pixy2_buffer'[wPointer - 1] + 256 * Pixy2_buffer'[wPointer]

C21_SyncDetection ==
    [][(pixy2_getByte /\ etat = "messageSent") =>
          IF wPointer = 0
            THEN UNCHANGED <<etat, hPointer, dPointer, dataSize, frameContainChecksum>>
            ELSE /\ etat' = "receivingHeader" <=> LastWord \in {49582, 49583}
                 /\ etat' # "receivingHeader" =>
                        UNCHANGED <<etat, hPointer, dPointer, dataSize,
                                    frameContainChecksum>>
                 /\ etat' = "receivingHeader" =>
                        /\ hPointer' = wPointer - 1
                        /\ frameContainChecksum' # 0 <=> LastWord = 49583
                        /\ dPointer' = hPointer' +
                               (IF LastWord = 49583 THEN 6 ELSE 4)]_vars

(***************************************************************************)
(* C22: in state ReceivingHeader, the byte that ends the header (the 4th   *)
(* byte of a frame without checksum, the 6th of a frame with one) makes    *)
(* the payload length be read from the header cursor + 3; the state        *)
(* becomes Idle when that length is zero (not ReceivingPayload, not        *)
(* Complete) and ReceivingPayload otherwise.                               *)
(***************************************************************************)
\* s[i], s[i+1] is a sync word.
SyncIn(s, i) == s[i] + 256 * s[i + 1] \in {49582, 49583}

\* The place, in the bytes received since the request, of the first byte of
\* the frame: of the first sync word.
FrameStart ==
    CHOOSE i \in 1..(Len(delivered) - 1) :
        SyncIn(delivered, i) /\ \A j \in 1..(i - 1) : ~SyncIn(delivered, j)

\* The byte being received is the last one of the header of the frame.
LastHeaderByte ==
    /\ etat = "receivingHeader"
    /\ Len(delivered') = FrameStart - 1 + HeaderSize

C22_HeaderEnd ==
    [][(pixy2_getByte /\ etat = "receivingHeader") =>
          IF LastHeaderByte
            THEN /\ dataSize' = delivered'[FrameStart + 3]
                 /\ dataSize' = Pixy2_buffer'[hPointer + 3]
                 /\ etat' = IF dataSize' = 0 THEN "idle" ELSE "receivingData"
            ELSE etat' = "receivingHeader" /\ dataSize' = dataSize]_vars

(***************************************************************************)
(* C23: k bytes of noise that hold no sync word, then a well formed reply  *)
(* frame with a payload that is not empty: once the last byte of the frame *)
(* is received the state is Complete, the header cursor is k, the data     *)
(* cursor is k + the size of the header, and the k bytes of noise are      *)
(* still in buffer[0..k-1].                                                *)
(***************************************************************************)
\* The bytes received since the request are some noise and one whole frame,
\* whose payload is not empty, and no call has read the reply yet.
NoiseThenFrame ==
    /\ branch \in {"idle", "default"}
    /\ \E i \in 1..(Len(delivered) - 1) : SyncIn(delivered, i)
    /\ Len(delivered) >= FrameStart + 3
    /\ delivered[FrameStart + 3] > 0
    /\ Len(delivered) =
          FrameStart - 1 + delivered[FrameStart + 3]
              + (IF delivered[FrameStart] = 175 THEN 6 ELSE 4)

C23_NoisePrefix ==
    NoiseThenFrame =>
        LET k == FrameStart - 1
        IN  /\ etat = "dataReceived"
            /\ hPointer = k
            /\ dPointer = k + (IF delivered[FrameStart] = 175 THEN 6 ELSE 4)
            /\ \A i \in 0..(k - 1) : Pixy2_buffer[i] = delivered[i + 1]

(***************************************************************************)
(* C24: every received byte, in every state, advances the write cursor by  *)
(* exactly one; no step of the interrupt moves the write cursor backward,  *)
(* and only a command call that starts a transaction from Idle sets it     *)
(* back to zero.                                                           *)
(***************************************************************************)
C24_WriteCursorAdvances ==
    [][/\ pixy2_getByte => wPointer' = wPointer + 1
       /\ wPointer' # wPointer =>
              \/ pixy2_getByte /\ wPointer' > wPointer
              \/ /\ Command /\ Transition("idle", "messageSent")
                 /\ wPointer' = 0]_vars

(***************************************************************************)
(* C25: a byte received while the state is Idle or Complete is stored at   *)
(* the write cursor, which it advances (to the next cell of the buffer,    *)
(* the first one after the last), and changes nothing else: the state, the *)
(* header cursor, the data cursor, the payload length and the checksum     *)
(* flag are as they were, and so are the other cells of the buffer and the *)
(* results of the commands.                                                *)
(***************************************************************************)
C25_ByteOutsideTransaction ==
    [][(pixy2_getByte /\ etat \in {"idle", "dataReceived"}) =>
          /\ Pixy2_buffer' = [Pixy2_buffer EXCEPT ![wPointer] = Head(rx)]
          /\ wPointer' = (wPointer + 1) % 256
          /\ UNCHANGED <<etat, hPointer, dPointer, dataSize, frameContainChecksum>>
          /\ UNCHANGED <<members, ptrOut, cr>>]_vars

\* A byte that belongs to no frame was received after the last byte of a
\* version reply, in state Complete.
C25_Witness ==
    /\ etat = "dataReceived"
    /\ delivered = RepVersion \o <<193>>
    /\ wPointer = Len(delivered)
    /\ Pixy2_buffer[wPointer - 1] = 193
    /\ StoredFrame = delivered
    /\ rx = <<>>

\* A byte was received in state Idle, before the first request, where the
\* constructor left the write cursor.
C25_WitnessIdle ==
    /\ etat = "idle"
    /\ txCount = 0
    /\ delivered = <<193>>
    /\ wPointer = 255
    /\ Pixy2_buffer[254] = 193

(***************************************************************************)
(* C26: the bytes received while the state is Complete do not corrupt the  *)
(* completed frame.  However many of them are received before a command    *)
(* reads the reply, the bytes of the header and of the payload             *)
(* (buffer[header cursor .. data cursor + payload length - 1]) stay as     *)
(* they were, and the command that reads the reply gives the result it     *)
(* would have given without them: for a block reply read by get-blocks,    *)
(* Ok, the blocks of the frame and their number.                           *)
(***************************************************************************)
\* The completed frame, as it lies in the buffer.
CompletedFrame == Stored(hPointer, dPointer + dataSize - 1)

\* The frame the camera sent is a block reply that passes the checksum, or
\* carries none; it is complete, and get-blocks reads it.
ReadsBlockReply ==
    /\ pixy2_getBlocks
    /\ etat = "dataReceived"
    /\ \E i \in 1..(Len(delivered) - 1) : SyncIn(delivered, i)
    /\ delivered[FrameStart + 2] = 33
    /\ \/ delivered[FrameStart] = 174
       \/ SubSeq(delivered, FrameStart, FrameStart + 5 + delivered[FrameStart + 3])
              \in {RepOneBlock}

C26_CompleteFrameKept ==
    [][/\ (pixy2_getByte /\ etat = "dataReceived") =>
              CompletedFrame' = CompletedFrame
       /\ ReadsBlockReply =>
              LET size == delivered[FrameStart + 3]
                  data == FrameStart - 1 + (IF delivered[FrameStart] = 175 THEN 6 ELSE 4)
              IN  /\ cr' = PIXY2_OK
                  /\ Pixy2_numBlocks' = size \div 14
                  /\ Pixy2_blocks' = [kind |-> "blocks", at |-> data]
                  /\ Stored(data, data + size - 1) =
                         SubSeq(delivered, data + 1, data + size)]_vars

(***************************************************************************)
(* C27: the walk of the features ends.  For every completed reply of the   *)
(* line type, whatever the bytes of its payload, a call of a line command  *)
(* made in state Complete returns, after finitely many turns of the walk,  *)
(* the walk being left when its cursor reaches the end of the payload.     *)
(***************************************************************************)
C27_WalkTerminates ==
    [][((pixy2_getMainFeature \/ pixy2_getAllFeature)
            /\ CompletePassing /\ StoredType = 49) =>
          /\ ~hung'
          /\ etat' = "idle"
          /\ cr' >= 0]_vars

(***************************************************************************)
(* C28: when get-blocks reads a complete reply of the block type that      *)
(* passes the checksum, the blocks are mapped at the data cursor and their *)
(* number is the integer part of the payload length divided by 14, the     *)
(* payload length being the length byte of the frame just completed; the   *)
(* call returns Ok and the state is Idle.                                  *)
(***************************************************************************)
C28_BlockCount ==
    [][(pixy2_getBlocks /\ CompletePassing /\ StoredType = 33) =>
          /\ Pixy2_buffer[hPointer + 3] = Injected[4]
          /\ Pixy2_numBlocks' = Injected[4] \div 14
          /\ Pixy2_blocks' = [kind |-> "blocks", at |-> dPointer]
          /\ Stored(dPointer, dPointer + 14 * Pixy2_numBlocks' - 1) =
                 SubSeq(Injected, HeaderSize + 1, HeaderSize + 14 * Pixy2_numBlocks')
          /\ cr' = PIXY2_OK
          /\ etat' = "idle"]_vars

\* get-blocks has read a reply of 21 bytes of payload: one block.
C28_Witness ==
    /\ branch = "dataReceived"
    /\ cr = PIXY2_OK
    /\ etat = "idle"
    /\ Pixy2_buffer[hPointer + 3] = 21
    /\ Pixy2_numBlocks = 1
    /\ Pixy2_blocks = [kind |-> "blocks", at |-> dPointer]
    /\ Stored(dPointer, dPointer + 13) = BlockPayload

(***************************************************************************)
(* C29: when the state is Complete, a call of any command, not only of the *)
(* one that sent the request, reads the reply: it verifies the checksum,   *)
(* decodes the reply against the type the called command expects,          *)
(* transmits nothing (the request of the called command is not sent by     *)
(* that call) and, the checksum passing, sets the state to Idle.           *)
(***************************************************************************)
\* The call reads the complete reply as a command that expects the type
\* expected does.
Harvests(expected) ==
    /\ ~Transmits
    /\ UNCHANGED <<tx, txCount, rx>>
    /\ CompleteFailing => (cr' = PIXY2_BAD_CHECKSUM /\ etat' = "dataReceived")
    /\ CompletePassing =>
          /\ etat' = "idle"
          /\ cr' = PIXY2_TYPE_ERROR <=> StoredType \notin {expected, 3}
          /\ cr' # PIXY2_BUSY

C29_AnyCommandHarvests ==
    [][etat = "dataReceived" =>
          /\ pixy2_getVersion => Harvests(15)
          /\ pixy2_getResolution => Harvests(13)
          /\ pixy2_setCameraBrightness => Harvests(1)
          /\ pixy2_setServos => Harvests(1)
          /\ pixy2_setLED => Harvests(1)
          /\ pixy2_setLamp => Harvests(1)
          /\ pixy2_getFPS => Harvests(1)
          /\ pixy2_getBlocks => Harvests(33)
          /\ pixy2_getMainFeature => Harvests(49)
          /\ pixy2_getAllFeature => Harvests(49)
          /\ pixy2_setMode => Harvests(1)
          /\ pixy2_setNextTurn => Harvests(1)
          /\ pixy2_setDefaultTurn => Harvests(1)
          /\ pixy2_setVector => Harvests(1)
          /\ pixy2_ReverseVector => Harvests(1)
          /\ pixy2_getRGB => Harvests(1)]_vars

(***************************************************************************)
(* C30: for every command, the request transmitted when the state goes     *)
(* from Idle to Sent is 4 + length bytes: 0xAE, 0xC1 (the sync word        *)
(* without checksum, least significant byte first), the opcode of the      *)
(* command, the fixed payload length of the command, then the payload      *)
(* built from the arguments, the 16 bit arguments least significant byte   *)
(* first; no checksum is sent.                                             *)
(***************************************************************************)
\* The two bytes of a 16 bit argument, least significant first.
LittleEndian(v) == <<(v + 65536) % 256, ((v + 65536) \div 256) % 256>>

\* The request frame of an opcode and a payload.
Request(opcode, payload) == <<174, 193, opcode, Len(payload)>> \o payload

C30_RequestEncoding ==
    [][etat = "idle" =>
          /\ pixy2_getVersion => tx' = Request(14, <<>>)
          /\ pixy2_getResolution => tx' = Request(12, <<0>>)
          /\ pixy2_setCameraBrightness =>
                \E brightness \in ArgBytes : tx' = Request(16, <<brightness>>)
          /\ pixy2_setServos =>
                \E s0, s1 \in ArgWords :
                    tx' = Request(18, LittleEndian(s0) \o LittleEndian(s1))
          /\ pixy2_setLED => \E c \in ArgColors : tx' = Request(20, c)
          /\ pixy2_setLamp => \E upper \in ArgBytes : tx' = Request(22, <<upper, 0>>)
          /\ pixy2_getFPS => tx' = Request(24, <<>>)
          /\ pixy2_getBlocks => \E sigmap \in ArgBytes : tx' = Request(32, <<sigmap, 10>>)
          /\ pixy2_getMainFeature => \E f \in ArgBytes : tx' = Request(48, <<0, f>>)
          /\ pixy2_getAllFeature => \E f \in ArgBytes : tx' = Request(48, <<1, f>>)
          /\ pixy2_setMode => \E mode \in ArgBytes : tx' = Request(54, <<mode>>)
          /\ pixy2_setNextTurn =>
                \E angle \in ArgAngles : tx' = Request(58, LittleEndian(angle))
          /\ pixy2_setDefaultTurn =>
                \E angle \in ArgAngles : tx' = Request(60, LittleEndian(angle))
          /\ pixy2_setVector =>
                \E vectorIndex \in ArgBytes : tx' = Request(56, <<vectorIndex>>)
          /\ pixy2_ReverseVector => tx' = Request(62, <<>>)
          /\ pixy2_getRGB =>
                \E x \in ArgWords :
                    tx' = Request(112, LittleEndian(x) \o LittleEndian(104) \o <<1>>)]_vars

(***************************************************************************)
(* pixy2_getVersion (pixy2.cpp, lines 390 to 425) statement by statement:  *)
(* the receive interrupt may run between two statements of the call.  pc   *)
(* is "switch" once msg was initialised, "sent" inside case idle once the  *)
(* request was written, "out" when the call has returned.                  *)
(***************************************************************************)
\* T_pixy2RcvHeader *msg = (T_pixy2RcvHeader*) &Pixy2_buffer[hPointer];
pixy2_getVersionEntry ==
    /\ pc = "out"
    /\ ~hung
    /\ pc' = "switch"
    /\ msg' = hPointer
    /\ UNCHANGED <<engine, members, ptrOut, cr, branch, hung, debugSums, line>>

\* case idle: wPointer = 0; cr = pixy2_sndGetVersion();
pixy2_getVersionIdleSend ==
    /\ pc = "switch"
    /\ etat = "idle"
    /\ txCount < MaxTransactions
    /\ wPointer' = 0
    /\ tx' = pixy2_sndGetVersion
    /\ txCount' = txCount + 1
    /\ delivered' = <<>>
    /\ branch' = "idle"
    /\ pc' = "sent"
    /\ UNCHANGED <<etat, Pixy2_buffer, hPointer, dPointer, dataSize, frameContainChecksum,
                   members, ptrOut, cr, hung, debugSums, rx, strays, camera, msg>>

\* etat = messageSent; cr = PIXY2_BUSY; break; return cr;
pixy2_getVersionIdleEnd ==
    /\ pc = "sent"
    /\ etat' = "messageSent"
    /\ cr' = PIXY2_BUSY
    /\ ptrOut' = NoView
    /\ pc' = "out"
    /\ msg' = 0
    /\ UNCHANGED <<Pixy2_buffer, wPointer, hPointer, dPointer, dataSize,
                   frameContainChecksum, members, branch, hung, debugSums, line>>

\* case dataReceived: the checksum is verified in the frame at hPointer, the
\* type is read through msg.
pixy2_getVersionDataReceived(adj) ==
    /\ pc = "switch"
    /\ etat = "dataReceived"
    /\ branch' = "dataReceived"
    /\ pc' = "out"
    /\ msg' = 0
    /\ IF ChecksumFails(adj)
         THEN /\ cr' = PIXY2_BAD_CHECKSUM
              /\ debugSums' = <<SumLoop(Pixy2_buffer, adj, hPointer, 0, 0),
                                ReceivedSum(Pixy2_buffer, adj, hPointer)>>
              /\ ptrOut' = NoView
              /\ UNCHANGED <<engine, members, hung, line>>
         ELSE /\ IF ByteAt(Pixy2_buffer, adj, msg + 2) = PIXY2_REP_VERS
                   THEN /\ ptrOut' = [kind |-> "version", at |-> dPointer]
                        /\ cr' = PIXY2_OK
                   ELSE /\ ptrOut' = NoView
                        /\ cr' = IF ByteAt(Pixy2_buffer, adj, msg + 2) = PIXY2_REP_ERROR
                                   THEN ErrorCodeAt(adj) ELSE PIXY2_TYPE_ERROR
              /\ etat' = "idle"
              /\ UNCHANGED <<Pixy2_buffer, wPointer, hPointer, dPointer, dataSize,
                             frameContainChecksum, members, hung, debugSums, line>>

\* default: cr = PIXY2_BUSY;
pixy2_getVersionDefault ==
    /\ pc = "switch"
    /\ etat \in {"messageSent", "receivingHeader", "receivingData"}
    /\ cr' = PIXY2_BUSY
    /\ branch' = "default"
    /\ ptrOut' = NoView
    /\ pc' = "out"
    /\ msg' = 0
    /\ UNCHANGED <<engine, members, hung, debugSums, line>>

\* The camera answers with a version or an error reply, that one noise byte
\* may precede.
PreemptedReplies == {RepVersion, Noise(1, NoisePatterns[1]) \o RepVersion, RepError2}

InitPreempt == InitWith(PreemptedReplies)

NextPreempt ==
    \/ pixy2_getVersionEntry
    \/ pixy2_getVersionIdleSend
    \/ pixy2_getVersionIdleEnd
    \/ \E adj \in UnknownBytes : pixy2_getVersionDataReceived(adj)
    \/ pixy2_getVersionDefault
    \/ pixy2_getByte
    \/ CameraReply

SpecPreempt == InitPreempt /\ [][NextPreempt]_vars

\* The same commands and replies with calls the interrupt does not preempt.
SpecNoPreempt == InitPreempt /\ [][NextNoise]_vars

(***************************************************************************)
(* Short replies: the camera answers pixy2_setLamp with an error or an     *)
(* acknowledge reply whose payload is 1 to 4 bytes long (the error code of *)
(* the Pixy2 protocol is one byte, a T_pixy2ReturnCode is four).           *)
(***************************************************************************)
ShortReply(type, n) ==
    ReplyFrame(PIXY2_CSSYNC, type, SubSeq(<<2, 0, 0, 0>>, 1, n), 0)

ShortReplies ==
    {ShortReply(type, n) : type \in {PIXY2_REP_ACK, PIXY2_REP_ERROR}, n \in 1..4}
        \cup {RepErrorMinus2}

InitShort == InitWith(ShortReplies)

NextShort ==
    \/ pixy2_setLamp
    \/ pixy2_getByte
    \/ CameraReply

SpecShort == InitShort /\ [][NextShort]_vars

(***************************************************************************)
(* C31: the checksum is verified exactly when the completed frame began    *)
(* with the sync word that announces one.  A frame that began with 0xC1AE  *)
(* is decoded by its type without any test of a checksum; for a frame that *)
(* began with 0xC1AF the type is not looked at and the state is not        *)
(* changed before the checksum has passed.                                 *)
(***************************************************************************)
\* The sync word of the frame that lies at the header cursor.
StoredSync == Pixy2_buffer[hPointer] + 256 * Pixy2_buffer[hPointer + 1]

\* The bytes pixy2_validateChecksum reads all lie in the buffer.
SumInBuffer == hPointer + 5 + Pixy2_buffer[hPointer + 3] < 256

C31_ChecksumExactlyWhenAnnounced ==
    [][(Command /\ etat = "dataReceived") =>
          /\ frameContainChecksum # 0 <=> StoredSync = 49583
          /\ StoredSync = 49582 =>
                /\ cr' # PIXY2_BAD_CHECKSUM
                /\ debugSums' = debugSums
                /\ cr' = PIXY2_TYPE_ERROR <=> (etat' = "idle" /\ StoredType \notin
                       {3, IF LineCommand THEN 49
                           ELSE IF pixy2_getVersion THEN 15
                           ELSE IF pixy2_getResolution THEN 13
                           ELSE IF pixy2_getBlocks THEN 33 ELSE 1})
          /\ StoredSync = 49583 =>
                /\ cr' = PIXY2_BAD_CHECKSUM => (etat' = "dataReceived" /\ Untouched)
                /\ etat' # "dataReceived" => cr' # PIXY2_BAD_CHECKSUM
                /\ SumInBuffer => (cr' = PIXY2_BAD_CHECKSUM <=> ~SumMatches)]_vars

\* A version reply without checksum was read: the two bytes where a checksum
\* would lie are the first two of the payload, and are not its sum.
C31_Witness ==
    /\ branch = "dataReceived"
    /\ cr = PIXY2_OK
    /\ etat = "idle"
    /\ frameContainChecksum = 0
    /\ StoredSync = 49582
    /\ Stored(dPointer, dPointer + 12) = VersionPayload
    /\ ~SumMatches

(***************************************************************************)
(* C32: a transaction comes to its end.  When, after the request was sent  *)
(* from Idle, the camera delivers one complete well formed reply (with or  *)
(* without checksum, any length byte, no noise before it), a caller that   *)
(* goes on calling the same command gets, for that transaction, a return   *)
(* code that is not Busy.                                                  *)
(***************************************************************************)
C32_TransactionEnds ==
    (txCount = 1 /\ etat = "messageSent") ~> (txCount = 1 /\ cr # PIXY2_BUSY)

(***************************************************************************)
(* C33: every view the walk of the features records lies wholly inside the *)
(* payload of the frame that is read: it begins at the data cursor + 2 or  *)
(* further, and its end, its offset + count * size of one element, is at   *)
(* most the data cursor + the payload length, whatever the payload holds   *)
(* (a feature may announce more bytes than the payload has left).          *)
(***************************************************************************)
\* The view of count elements of the given size at the given place lies in
\* the payload.
InPayload(view, count, size) ==
    /\ view.at >= dPointer + 2
    /\ view.at + count * size <= dPointer + dataSize

\* The bit of the mask n.
MaskBit(n, bit) == (n \div bit) % 2 = 1

C33_ViewsInsidePayload ==
    [][(ReadsLineReply /\ ~hung') =>
          /\ MaskBit(cr', 1) =>
                InPayload(features'.vectors, features'.numVectors, 6)
          /\ MaskBit(cr', 2) =>
                InPayload(features'.intersections, features'.numIntersections, 28)
          /\ MaskBit(cr', 4) =>
                InPayload(features'.barcodes, features'.numBarcodes, 4)]_vars

(***************************************************************************)
(* C34: after a line command has returned a mask of features (a code that  *)
(* is not negative), the number shown for every kind whose bit is clear in *)
(* the mask (vectors, intersections, barcodes) is zero, whatever the       *)
(* transactions before reported.                                           *)
(***************************************************************************)
C34_ClearBitZeroCount ==
    [][(ReadsLineReply /\ ~hung' /\ cr' >= 0) =>
          /\ ~MaskBit(cr', 1) => features'.numVectors = 0
          /\ ~MaskBit(cr', 2) => features'.numIntersections = 0
          /\ ~MaskBit(cr', 4) => features'.numBarcodes = 0]_vars


(***************************************************************************)
(* C35: the request a command transmits when it leaves idle is determined  *)
(* by the command and the values of its arguments alone: every frame the   *)
(* same command can transmit for the same arguments, in the same state or  *)
(* after any other activity, is the frame transmitted now (every payload   *)
(* byte is a value the command assigned).                                  *)
(***************************************************************************)
\* The payload bytes of a request the arguments of the call are copied to.
ArgumentBytes(frame) ==
    SubSeq(frame, 5, 4 + (IF frame[3] = 112 THEN 3 ELSE frame[4]))

\* The frames that carry the opcode and the argument bytes of a request, with
\* any values in the payload bytes no argument is copied to.
SameArguments(frame) ==
    {SubSeq(frame, 1, 4 + Len(ArgumentBytes(frame))) \o rest :
        rest \in [1..(frame[4] - Len(ArgumentBytes(frame))) -> UnknownBytes]}

C35_RequestDeterminism ==
    [][(Command /\ etat = "idle") =>
          \A f \in SameArguments(tx') :
              (ENABLED (Command /\ tx' = f)) => f = tx']_vars


C39_ReadsInsideBuffer ==
    [][(Command /\ etat = "dataReceived") =>
          /\ hPointer + 3 \in DOMAIN Pixy2_buffer
          /\ frameContainChecksum # 0 =>
                /\ hPointer + 5 \in DOMAIN Pixy2_buffer
                /\ hPointer + 5 + Pixy2_buffer[hPointer + 3] \in DOMAIN Pixy2_buffer]_vars


(***************************************************************************)
(* C40: the code returned when an acknowledge or an error reply is         *)
(* harvested depends on the payload bytes of that reply only: a run that   *)
(* received the same frame with other contents in the rest of the buffer   *)
(* returns the same value, for every payload length from 1 on (lengths     *)
(* below 4 included).                                                      *)
(***************************************************************************)
\* The buffers that hold the frame stored at hPointer and the byte b in
\* every other cell.
SameFrameStored ==
    {[i \in DOMAIN Pixy2_buffer |->
         IF i \in hPointer..(dPointer + dataSize - 1) THEN Pixy2_buffer[i] ELSE b] :
       b \in UnknownBytes}

\* A command takes its code from an acknowledge or an error reply.
ReadsReturnCode ==
    /\ Command
    /\ CompletePassing
    /\ etat' = "idle"
    /\ StoredType = 3 \/ (StoredType = 1 /\ cr' # PIXY2_TYPE_ERROR /\ ~pixy2_getRGB)

C40_CodeFromPayloadOnly ==
    [][ReadsReturnCode =>
          \A buf \in SameFrameStored, adj \in UnknownBytes :
              cr' = ErrorCodeIn(buf, adj, dPointer)]_vars


(***************************************************************************)
(* C36: no reply is lost to the start of a transaction: when bytes of the  *)
(* reply are given to the interrupt while the call is still inside case    *)
(* idle (the write cursor reset and the request written, etat not yet      *)
(* messageSent), the frame is detected all the same, and once all its      *)
(* bytes have been given the state is dataReceived.                        *)
(***************************************************************************)
\* The whole reply of the camera was given to the interrupt, the call that
\* sent the request has returned and no call has harvested the reply yet.
ReplyDelivered ==
    /\ txCount >= 1
    /\ tx = <<>>
    /\ rx = <<>>
    /\ delivered \in camera
    /\ pc # "sent"
    /\ branch # "dataReceived"

C36_NoReplyLostAtStart == ReplyDelivered => etat = "dataReceived"

(***************************************************************************)
(* C37: the type a call tests in case dataReceived is the type byte, at    *)
(* hPointer + 2, of the frame whose last byte made the state dataReceived, *)
(* in every interleaving, the one included in which the interrupt sets     *)
(* hPointer and completes the frame between the entry of the call, where   *)
(* msg is initialised, and its switch (etat).                              *)
(***************************************************************************)
C37_TestedTypeIsOfCompletedFrame ==
    [][(pc = "switch" /\ pc' = "out" /\ etat = "dataReceived") =>
          /\ msg = hPointer
          /\ CompletePassing =>
                /\ cr' = PIXY2_OK <=> StoredType = 15
                /\ cr' = PIXY2_TYPE_ERROR => StoredType \notin {3, 15}]_vars

=============================================================================
